---- MODULE Spec2Model ----
(***************************************************************************)
(* Session lifecycle and fan-out notification subsystem of                 *)
(* sandbox-on-aws-demo.                                                    *)
(*                                                                         *)
(* Part 1: the two connection registries,                                  *)
(*   UserConnectionManager (src/user_connection_manager.py) and            *)
(*   app.ConnectionManager (src/app.py).                                   *)
(* Part 2: the session stores (UserSessionManager, SessionManager,         *)
(*   BrowserSessionManager) with their expiry sweeps.                      *)
(* Part 3: the task slot of a computer-use / browser-use session.          *)
(*                                                                         *)
(* Python dicts are functions whose DOMAIN is the set of keys, lists are   *)
(* sequences, coroutines are records with a pc that stop at each await.    *)
(***************************************************************************)
EXTENDS Integers, Sequences, FiniteSets, TLC

\* ---------------------------------------------------------------- bounds
\* Number of messages the producers hand to a registry in one behaviour.
MaxMsgs == 2
\* Number of session objects, sandboxes and background tasks created in one
\* behaviour.
MaxRecords == 2
MaxSandboxes == 2
MaxTasks == 2
\* Number of background tasks started while the stores' removals are examined.
MaxStoreTasks == 1
\* Number of direct cleanup_resources calls on one UserSession object.
MaxCleanups == 2
\* How far below its capacity a pending queue may stand when a behaviour that
\* examines the capacity begins.
PrefillSlack == 8
\* The inactivity timeout in clock ticks (SESSION_TIMEOUT,
\* BROWSER_SESSION_TIMEOUT, session_timeout: one hour, counted here in ticks).
SESSION_TIMEOUT == 1


\* ------------------------------------------------------ program constants
\* Capacity of a pending-message queue ("> 1000" / "[-1000:]").
QUEUE_CAP == 1000

\* ------------------------------------------------------------- universes
Sessions == {"A", "B"}
WS == {"w1", "w2"}
Senders == {"p1", "p2"}
SIDs == {"s1", "s2"}
Callers == {"c1", "c2"}

\* The shapes of the messages the producers hand over, in turn: a dict without
\* a "timestamp" key, a text line (send_to_user), a dict with a timestamp.
Payload(id) ==
    CASE id % 3 = 1 -> [kind |-> "json", ts |-> "none"]
      [] id % 3 = 2 -> [kind |-> "text", ts |-> "none"]
      [] OTHER      -> [kind |-> "json", ts |-> "given"]

VARIABLES
    impl,                   \* which registry class this behaviour exercises
    \* UserConnectionManager
    user_connections,       \* session_id -> list of WebSocket
    connection_sessions,    \* WebSocket -> session_id
    user_message_queues,    \* session_id -> list of messages
    \* app.ConnectionManager
    active_connections,     \* list of WebSocket
    session_connections,    \* session_id -> set of WebSocket
    cm_connection_sessions, \* WebSocket -> session_id
    session_message_queues, \* session_id -> list of messages
    \* coroutines of both registries suspended inside a fan-out send
    sending,                \* sender -> coroutine frame
    \* the transports: what each connection has been sent, in order
    received,               \* WebSocket -> list of [msg, own]
    closed,                 \* WebSockets whose transport is closed: a send raises
    accepted,               \* WebSockets that have been accepted (websocket.accept())
    nsent                   \* number of messages handed to the registry so far

regVars == << impl, user_connections, connection_sessions, user_message_queues,
              active_connections, session_connections, cm_connection_sessions,
              session_message_queues, sending, received, closed, accepted,
              nsent >>

VARIABLES
    \* the session stores (UserSessionManager, SessionManager,
    \* BrowserSessionManager) and what their handlers act on
    sessions,               \* self.sessions: session_id -> session object
    heap,                   \* the session objects, by reference
    kills,                  \* sandbox -> number of kill() calls it has received
    tasks,                  \* background tasks, by reference
    calls,                  \* request handlers in progress: caller -> frame
    sweep,                  \* the periodic sweep (thread / _cleanup_task) frame
    cleanup_task            \* the number of sweep tasks (threads) of the store that are alive

sesVars == << sessions, heap, kills, tasks, calls, sweep, cleanup_task >>

vars == << regVars, sesVars >>

\* ------------------------------------------------------- dict/list helpers
Put(f, k, v) == [x \in (DOMAIN f) \cup {k} |-> IF x = k THEN v ELSE f[x]]

Del(f, k) == [x \in (DOMAIN f) \ {k} |-> f[x]]

Get(f, k, default) == IF k \in DOMAIN f THEN f[k] ELSE default

EmptyDict == [x \in {} |-> {}]

\* list.remove(x): drops the first occurrence (the caller checks membership)
RECURSIVE RemoveFirst(_, _)
RemoveFirst(seq, x) ==
    IF seq = << >> THEN << >>
    ELSE IF Head(seq) = x THEN Tail(seq)
    ELSE << Head(seq) >> \o RemoveFirst(Tail(seq), x)

Range(seq) == {seq[i] : i \in 1..Len(seq)}

\* lst[:n], the slice that keeps the oldest entries
FirstN(seq, n) ==
    IF Len(seq) <= n THEN seq ELSE SubSeq(seq, 1, n)

\* lst[-n:]
LastN(seq, n) ==
    IF Len(seq) <= n THEN seq ELSE SubSeq(seq, Len(seq) - n + 1, Len(seq))

Idle == [pc |-> "idle"]

\* Every store starts empty: self.sessions = {}, no sandbox, no task, no
\* request in progress.
InitSes(sweeper) ==
    /\ sessions = EmptyDict
    /\ heap = << >>
    /\ kills = << >>
    /\ tasks = << >>
    /\ calls = [c \in Callers |-> Idle]
    /\ sweep = Idle
    /\ cleanup_task = IF sweeper THEN 1 ELSE 0

\* The frame of a fan-out send that is over: free for the next coroutine.  It
\* keeps, as history, what the send was (session, message), the connections
\* whose send raised, and whether the call itself raised.
Returned(f, raised) ==
    [pc |-> "idle", sid |-> f.sid, msg |-> f.msg, failed |-> f.failed,
     raised |-> raised]

\* A new coroutine takes the first free frame.
FreeSender(p) ==
    /\ sending[p].pc = "idle"
    /\ p = "p2" => sending["p1"].pc # "idle"

\* The registry a behaviour works with: UserConnectionManager on its own or
\* beside the UserSessionManager; app.ConnectionManager on its own or as the
\* "manager" of the computer-use / browser-use handlers.
UsesUCM == impl \in {"ucm", "usm"}

UsesACM == impl \in {"acm", "cu", "bu"}

\* ------------------------------------------------------------ transports
\* The sessions under which a connection is registered in the forward map of
\* the registry in use.
RegsOf(ws) ==
    IF UsesUCM
    THEN {s \in DOMAIN user_connections : ws \in Range(user_connections[s])}
    ELSE {s \in DOMAIN session_connections : ws \in session_connections[s]}

\* websocket.send_json(m) / send_text(m) that does not raise: the transport
\* takes the message.  The entry remembers whether ws was registered under the
\* session the message is addressed to (regs: where ws is registered).
Deliver(rcv, ws, m, regs) ==
    [rcv EXCEPT ![ws] = Append(@, [msg |-> m, own |-> (m.to \in regs)])]

\* ====================================================================
\* Part 1a.  UserConnectionManager
\* ====================================================================

\* A disconnect that forgets the reverse lookup: the connection leaves the
\* list of its session and stays in connection_sessions.
ucm_disconnect_keeps_reverse(uc, cs, ws) ==
    IF ws \notin DOMAIN cs
    THEN [uc |-> uc, cs |-> cs]
    ELSE LET s == cs[ws]
             l == RemoveFirst(uc[s], ws)
         IN [uc |-> IF s \in DOMAIN uc /\ ws \in Range(uc[s])
                    THEN (IF l = << >> THEN Del(uc, s) ELSE [uc EXCEPT ![s] = l])
                    ELSE uc,
             cs |-> cs]

\* A disconnect that does not trust the reverse map: a connection without an
\* entry there is searched for in every list and removed where it is found.
ucm_disconnect_scans(uc, cs, ws) ==
    IF ws \notin DOMAIN cs
    THEN LET keep == {s \in DOMAIN uc : RemoveFirst(uc[s], ws) # << >>}
         IN [uc |-> [s \in keep |-> RemoveFirst(uc[s], ws)], cs |-> cs]
    ELSE LET s == cs[ws]
             uc1 == IF s \in DOMAIN uc /\ ws \in Range(uc[s])
                    THEN LET l == RemoveFirst(uc[s], ws)
                         IN IF l = << >> THEN Del(uc, s) ELSE [uc EXCEPT ![s] = l]
                    ELSE uc
         IN [uc |-> uc1, cs |-> Del(cs, ws)]

\* UserConnectionManager.disconnect, as a function of the two maps.
ucm_disconnect(uc, cs, ws) ==
    IF ws \notin DOMAIN cs
    THEN [uc |-> uc, cs |-> cs]
    ELSE LET s == cs[ws]
             uc1 == IF s \in DOMAIN uc /\ ws \in Range(uc[s])
                    THEN LET l == RemoveFirst(uc[s], ws)
                         IN IF l = << >> THEN Del(uc, s) ELSE [uc EXCEPT ![s] = l]
                    ELSE uc
         IN [uc |-> uc1, cs |-> Del(cs, ws)]

\* disconnect applied to a list of connections, in order
RECURSIVE ucm_disconnect_all(_, _, _)
ucm_disconnect_all(uc, cs, conns) ==
    IF conns = << >> THEN [uc |-> uc, cs |-> cs]
    ELSE LET st == ucm_disconnect(uc, cs, Head(conns))
         IN ucm_disconnect_all(st.uc, st.cs, Tail(conns))

\* A coroutine iterating the list object of session s keeps that object.  The
\* object leaves the dict only when it is empty (del in disconnect), and from
\* then on it stays empty: the frame is marked detached.
Detach(frames, oldKeys, newKeys) ==
    [p \in Senders |->
        IF frames[p].pc \in {"iter", "bc"} /\ frames[p].sid \in oldKeys \ newKeys
        THEN [frames[p] EXCEPT !.detached = TRUE]
        ELSE frames[p]]

\* The dict form of a message once _queue_message has handled it: a text
\* message is wrapped as {"type": "text", "data": ...}, and a timestamp is
\* added when the message carries none.
Stamped(m) ==
    [m EXCEPT !.kind = IF @ = "text" THEN "wrapped" ELSE @,
              !.ts = IF @ = "none" THEN "queued" ELSE @]

\* UserConnectionManager._queue_message
ucm_queue_message(queues, s, m) ==
    LET q0 == IF s \in DOMAIN queues THEN queues ELSE Put(queues, s, << >>)
        q1 == [q0 EXCEPT ![s] = Append(@, Stamped(m))]
    IN IF Len(q1[s]) > QUEUE_CAP
       THEN [q1 EXCEPT ![s] = LastN(@, QUEUE_CAP)]
       ELSE q1

\* for message in queued_messages: send_json, break on the first failure.
\* n is the number of messages the transport took before a send raised.
RECURSIVE DeliverAll(_, _, _, _)
DeliverAll(rcv, ws, msgs, regs) ==
    IF msgs = << >> THEN rcv
    ELSE DeliverAll(Deliver(rcv, ws, Head(msgs), regs), ws, Tail(msgs), regs)

\* UserConnectionManager._send_queued_messages: the queue after the flush
ucm_clear_after_flush(queues, s) ==
    IF s \in DOMAIN queues THEN [queues EXCEPT ![s] = << >>] ELSE queues

\* The queue connect() hands to _send_queued_messages: connect() creates the
\* connection list and, with it, a fresh empty queue when the session has no
\* entry in user_connections.
ucm_queues_on_connect(queues, uc, s) ==
    IF s \notin DOMAIN uc THEN Put(queues, s, << >>) ELSE queues

\* await manager.connect(websocket, session_id)
ucm_connect(ws, s) ==
    /\ UsesUCM
    /\ UNCHANGED sesVars
    /\ ws \notin closed
    /\ ws \in accepted => ws \in DOMAIN connection_sessions
    /\ ws \notin Range(Get(user_connections, s, << >>))
    /\ accepted' = accepted \cup {ws}
    /\ LET uc0 == IF s \notin DOMAIN user_connections
                  THEN Put(user_connections, s, << >>) ELSE user_connections
           q0 == ucm_queues_on_connect(user_message_queues, user_connections, s)
           uc1 == [uc0 EXCEPT ![s] = Append(@, ws)]
           queued == Get(q0, s, << >>)
       IN /\ user_connections' = uc1
          /\ connection_sessions' = Put(connection_sessions, ws, s)
          /\ received' = DeliverAll(received, ws, queued,
                                    {x \in DOMAIN uc1 : ws \in Range(uc1[x])})
          /\ user_message_queues' = ucm_clear_after_flush(q0, s)
    /\ UNCHANGED << impl, active_connections, session_connections,
                    cm_connection_sessions, session_message_queues, sending, closed, nsent >>

\* manager.disconnect(websocket), called by the transport layer
ucm_disconnect_call(ws) ==
    /\ UsesUCM
    /\ UNCHANGED sesVars
    /\ LET st == ucm_disconnect(user_connections, connection_sessions, ws)
       IN /\ user_connections' = st.uc
          /\ connection_sessions' = st.cs
          /\ sending' = Detach(sending, DOMAIN user_connections, DOMAIN st.uc)
    /\ closed' = closed \cup {ws}
    /\ UNCHANGED << impl, accepted, user_message_queues, active_connections, session_connections,
                    cm_connection_sessions, session_message_queues, received, nsent >>

\* One pass of "try: await connection.send(...) except: disconnected.append"
\* on connection ws: the transport takes the message, or the send raises.
ucm_try_send(f, ws) ==
    /\ received' = IF ws \notin closed
                   THEN Deliver(received, ws, f.msg, RegsOf(ws)) ELSE received
    /\ sending' = [sending EXCEPT ![f.p] =
                      [f EXCEPT !.i = @ + 1,
                                !.failed = IF ws \notin closed THEN @ ELSE Append(@, ws)]]

\* A send to s reaching every connection of every session (a lookup that
\* ignores the session id).
ucm_connections_of_any(uc, s) ==
    LET RECURSIVE Cat(_)
        Cat(S) == IF S = {} THEN << >>
                  ELSE LET x == CHOOSE y \in S : TRUE IN uc[x] \o Cat(S \ {x})
    IN Cat(DOMAIN uc)

\* connections = self.user_connections.get(session_id, [])
ucm_connections_of(uc, s) == Get(uc, s, << >>)

\* send_json_to_user / send_to_user up to the first await: queue the message
\* when the session has no connection, else start the fan-out loop.
\* snap is history: the connections the list held when the loop began.
ucm_send_begin(p, s, kind, ts) ==
    /\ UsesUCM
    /\ UNCHANGED sesVars
    /\ FreeSender(p)
    /\ nsent < MaxMsgs
    /\ Payload(nsent + 1) = [kind |-> kind, ts |-> ts]
    /\ nsent' = nsent + 1
    /\ LET m == [id |-> nsent + 1, to |-> s, kind |-> kind, ts |-> ts]
           connections == ucm_connections_of(user_connections, s)
       IN IF connections = << >>
          THEN /\ user_message_queues' = ucm_queue_message(user_message_queues, s, m)
               /\ UNCHANGED << sending, received >>
          ELSE /\ ucm_try_send([p |-> p, pc |-> "iter", sid |-> s, msg |-> m, i |-> 1,
                                snap |-> Range(connections),
                                failed |-> << >>, detached |-> FALSE],
                               connections[1])
               /\ UNCHANGED user_message_queues
    /\ UNCHANGED << impl, accepted, user_connections, connection_sessions, active_connections,
                    session_connections, cm_connection_sessions, session_message_queues,
                    closed >>

\* async def send_json_to_user(self, session_id, data)
send_json_to_user(p, s) ==
    \E ts \in {"none", "given"} : ucm_send_begin(p, s, "json", ts)

\* async def send_to_user(self, session_id, message)
send_to_user(p, s) == ucm_send_begin(p, s, "text", "none")

\* The coroutine resumes after an await inside the loop: next connection of
\* the (live) list, or the loop ends and the failed connections are pruned.
ucm_send_resume(p) ==
    /\ UsesUCM
    /\ UNCHANGED sesVars
    /\ sending[p].pc = "iter"
    /\ LET f == sending[p]
           connections == IF f.detached THEN << >> ELSE user_connections[f.sid]
       IN IF f.i <= Len(connections)
          THEN /\ ucm_try_send(f, connections[f.i])
               /\ UNCHANGED << user_connections, connection_sessions >>
          ELSE LET st == ucm_disconnect_all(user_connections, connection_sessions, f.failed)
               IN /\ user_connections' = st.uc
                  /\ connection_sessions' = st.cs
                  /\ sending' = Detach([sending EXCEPT ![p] = Returned(f, FALSE)],
                                       DOMAIN user_connections, DOMAIN st.uc)
                  /\ UNCHANGED received
    /\ UNCHANGED << impl, accepted, user_message_queues, active_connections, session_connections,
                    cm_connection_sessions, session_message_queues, closed, nsent >>

\* def cleanup_session(self, session_id)
ucm_cleanup_session(s) ==
    /\ UsesUCM
    /\ UNCHANGED sesVars
    /\ LET st == ucm_disconnect_all(user_connections, connection_sessions,
                                    Get(user_connections, s, << >>))
       IN /\ user_connections' = st.uc
          /\ connection_sessions' = st.cs
          /\ sending' = Detach(sending, DOMAIN user_connections, DOMAIN st.uc)
    /\ user_message_queues' =
          IF s \in DOMAIN user_message_queues THEN Del(user_message_queues, s)
          ELSE user_message_queues
    /\ UNCHANGED << impl, accepted, active_connections, session_connections,
                    cm_connection_sessions, session_message_queues, received, closed, nsent >>

\* The peer goes away or the network breaks: from now on a send on ws raises.
\* The registry learns of it only through a failing send or a disconnect call.
TransportCloses(ws) ==
    /\ ws \notin closed
    /\ UNCHANGED sesVars
    /\ closed' = closed \cup {ws}
    /\ UNCHANGED << impl, accepted, user_connections, connection_sessions, user_message_queues,
                    active_connections, session_connections, cm_connection_sessions,
                    session_message_queues, sending, received, nsent >>

NextUCM ==
    \/ \E ws \in WS, s \in Sessions : ucm_connect(ws, s)
    \/ \E ws \in WS : ucm_disconnect_call(ws)
    \/ \E p \in Senders, s \in Sessions : send_json_to_user(p, s)
    \/ \E p \in Senders, s \in Sessions : send_to_user(p, s)
    \/ \E p \in Senders : ucm_send_resume(p)
    \/ \E s \in Sessions : ucm_cleanup_session(s)
    \/ \E ws \in WS : impl = "ucm" /\ TransportCloses(ws)

InitReg(kind) ==
    /\ impl = kind
    /\ user_connections = EmptyDict
    /\ connection_sessions = EmptyDict
    /\ user_message_queues = EmptyDict
    /\ active_connections = << >>
    /\ session_connections = EmptyDict
    /\ cm_connection_sessions = EmptyDict
    /\ session_message_queues = EmptyDict
    /\ sending = [p \in Senders |-> Idle]
    /\ received = [w \in WS |-> << >>]
    /\ closed = {}
    /\ accepted = {}
    /\ nsent = 0
    /\ InitSes(FALSE)

InitUCM == InitReg("ucm")

SpecUCM == InitUCM /\ [][NextUCM]_vars

\* ====================================================================
\* Part 1b.  app.ConnectionManager
\* ====================================================================

NoSession == "None"

\* ConnectionManager.associate_session, as a function of the two maps
cm_associate(sc, cs, ws, s) ==
    LET sc0 == IF s \notin DOMAIN sc THEN Put(sc, s, {}) ELSE sc
    IN [sc |-> [sc0 EXCEPT ![s] = @ \cup {ws}], cs |-> Put(cs, ws, s)]

\* ConnectionManager.disconnect, as a function of the list and the two maps
cm_disconnect(ac, sc, cs, ws) ==
    LET ac1 == IF ws \in Range(ac) THEN RemoveFirst(ac, ws) ELSE ac
    IN IF ws \notin DOMAIN cs
       THEN [ac |-> ac1, sc |-> sc, cs |-> cs]
       ELSE LET s == cs[ws]
                sc1 == IF s \in DOMAIN sc
                       THEN IF sc[s] \ {ws} = {} THEN Del(sc, s)
                            ELSE [sc EXCEPT ![s] = @ \ {ws}]
                       ELSE sc
            IN [ac |-> ac1, sc |-> sc1, cs |-> Del(cs, ws)]

RECURSIVE cm_disconnect_all(_, _, _, _)
cm_disconnect_all(ac, sc, cs, conns) ==
    IF conns = << >> THEN [ac |-> ac, sc |-> sc, cs |-> cs]
    ELSE LET st == cm_disconnect(ac, sc, cs, Head(conns))
         IN cm_disconnect_all(st.ac, st.sc, st.cs, Tail(conns))

\* async def connect(self, websocket, session_id=None)
cm_connect(ws, s) ==
    /\ UsesACM
    /\ UNCHANGED sesVars
    /\ ws \notin closed
    /\ ws \notin accepted
    /\ accepted' = accepted \cup {ws}
    /\ active_connections' = Append(active_connections, ws)
    /\ IF s # NoSession
       THEN LET st == cm_associate(session_connections, cm_connection_sessions, ws, s)
            IN /\ session_connections' = st.sc
               /\ cm_connection_sessions' = st.cs
       ELSE UNCHANGED << session_connections, cm_connection_sessions >>
    /\ UNCHANGED << impl, user_connections, connection_sessions, user_message_queues,
                    session_message_queues, sending, received, closed, nsent >>

\* manager.associate_session(websocket, session_id), on an 'identify_session'
\* message read from a connection that connect() has accepted
associate_session(ws, s) ==
    /\ UsesACM
    /\ UNCHANGED sesVars
    /\ ws \in Range(active_connections)
    /\ ws \notin closed
    /\ LET st == cm_associate(session_connections, cm_connection_sessions, ws, s)
       IN /\ session_connections' = st.sc
          /\ cm_connection_sessions' = st.cs
    /\ UNCHANGED << impl, accepted, user_connections, connection_sessions,
                    user_message_queues, active_connections, session_message_queues,
                    sending, received, closed, nsent >>

\* A coroutine iterating the set object of session s keeps that object; the
\* object leaves the dict only when it is empty.
\* manager.disconnect(websocket) on WebSocketDisconnect
cm_disconnect_call(ws) ==
    /\ UsesACM
    /\ UNCHANGED sesVars
    /\ ws \in Range(active_connections)
    /\ LET st == cm_disconnect(active_connections, session_connections,
                               cm_connection_sessions, ws)
       IN /\ active_connections' = st.ac
          /\ session_connections' = st.sc
          /\ cm_connection_sessions' = st.cs
          /\ sending' = Detach(sending, DOMAIN session_connections, DOMAIN st.sc)
    /\ closed' = closed \cup {ws}
    /\ UNCHANGED << impl, accepted, user_connections, connection_sessions,
                    user_message_queues, session_message_queues, received, nsent >>

\* ConnectionManager.disconnect called for a connection that is not (or no
\* longer) in active_connections: the same code, on the rest of its inputs.
cm_disconnect_unregistered(ws) ==
    /\ UsesACM
    /\ UNCHANGED sesVars
    /\ ws \notin Range(active_connections)
    /\ LET st == cm_disconnect(active_connections, session_connections,
                               cm_connection_sessions, ws)
       IN /\ active_connections' = st.ac
          /\ session_connections' = st.sc
          /\ cm_connection_sessions' = st.cs
          /\ sending' = Detach(sending, DOMAIN session_connections, DOMAIN st.sc)
    /\ closed' = closed \cup {ws}
    /\ UNCHANGED << impl, accepted, user_connections, connection_sessions,
                    user_message_queues, session_message_queues, received, nsent >>

\* The queueing branch of send_to_session
cm_queue_message(queues, s, m) ==
    LET q0 == IF s \in DOMAIN queues THEN queues ELSE Put(queues, s, << >>)
        q1 == [q0 EXCEPT ![s] = Append(@, m)]
    IN IF Len(q1[s]) > QUEUE_CAP
       THEN [q1 EXCEPT ![s] = LastN(@, QUEUE_CAP)]
       ELSE q1

\* One pass of "try: await connection.send_json(data) except: ...append"
cm_try_send(f, ws) ==
    /\ received' = IF ws \notin closed
                   THEN Deliver(received, ws, f.msg, RegsOf(ws)) ELSE received
    /\ sending' = [sending EXCEPT ![f.p] =
                      [f EXCEPT !.visited = @ \cup {ws},
                                !.failed = IF ws \notin closed THEN @ ELSE Append(@, ws)]]

\* send_to_session up to its first await
send_to_session(p, s) ==
    /\ UsesACM
    /\ UNCHANGED sesVars
    /\ FreeSender(p)
    /\ nsent < MaxMsgs
    /\ nsent' = nsent + 1
    /\ LET m == [id |-> nsent + 1, to |-> s, kind |-> "json", ts |-> Payload(nsent + 1).ts]
       IN IF s \notin DOMAIN session_connections
          THEN /\ session_message_queues' = cm_queue_message(session_message_queues, s, m)
               /\ UNCHANGED << sending, received >>
          ELSE /\ \E ws \in session_connections[s] :
                    cm_try_send([p |-> p, pc |-> "iter", sid |-> s, msg |-> m,
                                 visited |-> {}, snap |-> session_connections[s],
                                 failed |-> << >>, detached |-> FALSE], ws)
               /\ UNCHANGED session_message_queues
    /\ UNCHANGED << impl, accepted, user_connections, connection_sessions,
                    user_message_queues, active_connections, session_connections,
                    cm_connection_sessions, closed >>

\* The coroutine resumes inside "for connection in self.session_connections[s]".
\* The set iterator raises RuntimeError when the size of the set has changed;
\* an element added meanwhile (size restored by a removal) may or may not be
\* reached.  After the loop the failed connections are disconnected.
cm_send_resume(p) ==
    /\ UsesACM
    /\ UNCHANGED sesVars
    /\ sending[p].pc = "iter"
    /\ LET f == sending[p]
           cur == IF f.detached THEN {} ELSE session_connections[f.sid]
           todo == cur \ f.visited
       IN IF Cardinality(cur) # Cardinality(f.snap)
          THEN \* RuntimeError: Set changed size during iteration
               /\ sending' = [sending EXCEPT ![p] = Returned(f, TRUE)]
               /\ UNCHANGED << active_connections, session_connections,
                               cm_connection_sessions, received >>
          ELSE \/ /\ todo # {}
                  /\ \E ws \in todo : cm_try_send(f, ws)
                  /\ UNCHANGED << active_connections, session_connections,
                                  cm_connection_sessions >>
               \/ /\ todo \cap f.snap = {}
                  /\ LET st == cm_disconnect_all(active_connections, session_connections,
                                                 cm_connection_sessions, f.failed)
                     IN /\ active_connections' = st.ac
                        /\ session_connections' = st.sc
                        /\ cm_connection_sessions' = st.cs
                        /\ sending' = Detach([sending EXCEPT ![p] = Returned(f, FALSE)],
                                             DOMAIN session_connections, DOMAIN st.sc)
                  /\ UNCHANGED received
    /\ UNCHANGED << impl, accepted, user_connections, connection_sessions,
                    user_message_queues, session_message_queues, closed, nsent >>

NextACM ==
    \/ \E ws \in WS, s \in Sessions \cup {NoSession} : cm_connect(ws, s)
    \/ \E ws \in WS, s \in Sessions : associate_session(ws, s)
    \/ \E ws \in WS : cm_disconnect_call(ws)
    \/ \E p \in Senders, s \in Sessions : send_to_session(p, s)
    \/ \E p \in Senders : cm_send_resume(p)
    \/ \E ws \in WS : impl = "acm" /\ TransportCloses(ws)

InitACM == InitReg("acm")

SpecACM == InitACM /\ [][NextACM]_vars

\* Both registries: a behaviour exercises one of the two classes.
InitRegistry == \E kind \in {"ucm", "acm"} : InitReg(kind)

NextRegistry == NextUCM \/ NextACM

SpecRegistry == InitRegistry /\ [][NextRegistry]_vars

\* Both registries, with disconnect also called for connections they do not
\* hold.
NextDisconnect ==
    \/ NextRegistry
    \/ \E ws \in WS : cm_disconnect_unregistered(ws)

SpecDisconnect == InitRegistry /\ [][NextDisconnect]_vars

\* The registries used as the transport layer uses them: a connection object is
\* attached to one session (no second connect / identify_session for an object
\* that is already registered), so the connection sets of distinct sessions
\* stay disjoint.
NextDisjoint ==
    \/ \E ws \in WS, s \in Sessions : ws \notin accepted /\ ucm_connect(ws, s)
    \/ \E ws \in WS : ucm_disconnect_call(ws)
    \/ \E p \in Senders, s \in Sessions : send_json_to_user(p, s)
    \/ \E p \in Senders, s \in Sessions : send_to_user(p, s)
    \/ \E p \in Senders : ucm_send_resume(p)
    \/ \E s \in Sessions : ucm_cleanup_session(s)
    \/ \E ws \in WS, s \in Sessions \cup {NoSession} : cm_connect(ws, s)
    \/ \E ws \in WS, s \in Sessions :
          ws \notin DOMAIN cm_connection_sessions /\ associate_session(ws, s)
    \/ \E ws \in WS : cm_disconnect_call(ws)
    \/ \E p \in Senders, s \in Sessions : send_to_session(p, s)
    \/ \E p \in Senders : cm_send_resume(p)
    \/ \E ws \in WS : TransportCloses(ws)

SpecDisjoint == InitRegistry /\ [][NextDisjoint]_vars

\* No fan-out send is suspended.
Quiet == \A p \in Senders : sending[p].pc = "idle"

\* The registries called by one caller at a time: a call to connect,
\* disconnect, cleanup_session or a send begins only when no send is in
\* progress.  Transports may close at any moment, also in the middle of a
\* fan-out.
NextFanout ==
    \/ \E ws \in WS, s \in Sessions : Quiet /\ ws \notin accepted /\ ucm_connect(ws, s)
    \/ \E ws \in WS : Quiet /\ ucm_disconnect_call(ws)
    \/ \E p \in Senders, s \in Sessions : Quiet /\ send_json_to_user(p, s)
    \/ \E p \in Senders, s \in Sessions : Quiet /\ send_to_user(p, s)
    \/ \E p \in Senders : ucm_send_resume(p)
    \/ \E s \in Sessions : Quiet /\ ucm_cleanup_session(s)
    \/ \E ws \in WS, s \in Sessions \cup {NoSession} : Quiet /\ cm_connect(ws, s)
    \/ \E ws \in WS, s \in Sessions :
          Quiet /\ ws \notin DOMAIN cm_connection_sessions /\ associate_session(ws, s)
    \/ \E ws \in WS : Quiet /\ cm_disconnect_call(ws)
    \/ \E p \in Senders, s \in Sessions : Quiet /\ send_to_session(p, s)
    \/ \E p \in Senders : cm_send_resume(p)
    \/ \E ws \in WS : TransportCloses(ws)

SpecFanout == InitRegistry /\ [][NextFanout]_vars

\* ------------------------------------------------------------ broadcast
\* The frame of a broadcast that is over.  It keeps, as history, the number of
\* the message, the connections that were attached when the call began
\* (targets), the sessions the loop reached, the connections it pruned, and
\* whether the call raised.
BroadcastReturned(f, raised) ==
    [pc |-> "idle", op |-> "broadcast", id |-> f.msg.id, targets |-> f.targets,
     visited |-> f.visited, pruned |-> f.pruned, raised |-> raised]

\* for session_id in self.user_connections.keys(): one step of the iterator of
\* the live dict.  It raises RuntimeError("dictionary changed size during
\* iteration") when the dict does not have the size it had when the loop
\* began; else it yields a key not yet visited, or ends.  (The dict keeps its
\* keys in insertion order; the order is left open here.)
keys_iter_next(f, uc) ==
    IF Cardinality(DOMAIN uc) # f.size THEN {"raise"}
    ELSE IF DOMAIN uc \ f.visited = {} THEN {"end"}
    ELSE DOMAIN uc \ f.visited

\* broadcast_to_all from the iterator step on, up to the next await: leave the
\* loop, or call send_json_to_user for the next session (queue the message when
\* the session has no connection, else send to its first connection).
broadcast_step(f, uc) ==
    \E k \in keys_iter_next(f, uc) :
        IF k = "raise" \/ k = "end"
        THEN /\ sending' = Detach([sending EXCEPT ![f.p] = BroadcastReturned(f, k = "raise")],
                                  DOMAIN user_connections, DOMAIN uc)
             /\ UNCHANGED << received, user_message_queues >>
        ELSE LET m == [f.msg EXCEPT !.to = k]
                 connections == ucm_connections_of(uc, k)
                 g == [f EXCEPT !.sid = k, !.msg = m, !.i = 1, !.snap = Range(connections),
                                !.failed = << >>, !.detached = FALSE]
             IN IF connections = << >>
                THEN /\ user_message_queues' = ucm_queue_message(user_message_queues, k, m)
                     /\ sending' = [sending EXCEPT ![f.p] = [g EXCEPT !.detached = TRUE]]
                     /\ UNCHANGED received
                ELSE /\ received' = IF connections[1] \notin closed
                                    THEN Deliver(received, connections[1], m, {k})
                                    ELSE received
                     /\ sending' = Detach([sending EXCEPT ![f.p] =
                                       [g EXCEPT !.i = 2,
                                                 !.failed = IF connections[1] \notin closed
                                                            THEN << >>
                                                            ELSE << connections[1] >>]],
                                       DOMAIN user_connections, DOMAIN uc)
                     /\ UNCHANGED user_message_queues

\* async def broadcast_to_all(self, data)
broadcast_to_all(p) ==
    /\ UsesUCM
    /\ UNCHANGED sesVars
    /\ FreeSender(p)
    /\ nsent < MaxMsgs
    /\ Payload(nsent + 1).kind = "json"
    /\ nsent' = nsent + 1
    /\ broadcast_step([p |-> p, pc |-> "bc", sid |-> NoSession,
                       msg |-> [id |-> nsent + 1, to |-> NoSession, kind |-> "json",
                                ts |-> Payload(nsent + 1).ts],
                       i |-> 1, snap |-> {}, failed |-> << >>, detached |-> FALSE,
                       size |-> Cardinality(DOMAIN user_connections),
                       targets |-> DOMAIN connection_sessions
                                     \cap UNION {Range(user_connections[s]) :
                                                   s \in DOMAIN user_connections},
                       visited |-> {}, pruned |-> {}],
                      user_connections)
    /\ UNCHANGED << impl, accepted, user_connections, connection_sessions, active_connections,
                    session_connections, cm_connection_sessions, session_message_queues,
                    closed >>

\* The broadcast resumes after an await inside send_json_to_user: the next
\* connection of the session's (live) list; or that send is over, the failed
\* connections are pruned, and the loop over the sessions goes on.
broadcast_resume(p) ==
    /\ UsesUCM
    /\ UNCHANGED sesVars
    /\ sending[p].pc = "bc"
    /\ LET f == sending[p]
           connections == IF f.detached THEN << >> ELSE user_connections[f.sid]
       IN IF f.i <= Len(connections)
          THEN /\ ucm_try_send(f, connections[f.i])
               /\ UNCHANGED << user_connections, connection_sessions, user_message_queues >>
          ELSE LET st == ucm_disconnect_all(user_connections, connection_sessions, f.failed)
               IN /\ user_connections' = st.uc
                  /\ connection_sessions' = st.cs
                  /\ broadcast_step([f EXCEPT !.visited = @ \cup {f.sid},
                                              !.pruned = @ \cup Range(f.failed)],
                                    st.uc)
    /\ UNCHANGED << impl, accepted, active_connections, session_connections,
                    cm_connection_sessions, session_message_queues, closed, nsent >>

\* UserConnectionManager called by one caller at a time, each connection object
\* attached once: a connect, disconnect, cleanup_session, send or broadcast
\* begins only when no send is in progress.  Transports may close at any
\* moment, also in the middle of a broadcast.
NextBroadcast ==
    \/ \E ws \in WS, s \in Sessions : Quiet /\ ws \notin accepted /\ ucm_connect(ws, s)
    \/ \E ws \in WS : Quiet /\ ucm_disconnect_call(ws)
    \/ \E p \in Senders, s \in Sessions : Quiet /\ send_json_to_user(p, s)
    \/ \E p \in Senders : ucm_send_resume(p)
    \/ \E s \in Sessions : Quiet /\ ucm_cleanup_session(s)
    \/ \E p \in Senders : Quiet /\ broadcast_to_all(p)
    \/ \E p \in Senders : broadcast_resume(p)
    \/ \E ws \in WS : TransportCloses(ws)

SpecBroadcast == InitUCM /\ [][NextBroadcast]_vars

\* A pending queue that n earlier sends to session "A" have filled while no
\* connection was attached.  The earlier messages carry the numbers up to 0
\* (those of this behaviour are 1, 2, ...); UserConnectionManager has stamped
\* them.
Prefilled(n, kind) ==
    [i \in 1..n |-> [id |-> i - QUEUE_CAP, to |-> "A", kind |-> "json",
                     ts |-> IF kind = "ucm" THEN "queued" ELSE "none"]]

\* A registry without connections whose queue of session "A" stands at or
\* just below its capacity.
InitQueue ==
    \E kind \in {"ucm", "acm"}, n \in (QUEUE_CAP - PrefillSlack)..QUEUE_CAP :
        /\ impl = kind
        /\ user_connections = EmptyDict
        /\ connection_sessions = EmptyDict
        /\ user_message_queues =
              IF kind = "ucm" THEN Put(EmptyDict, "A", Prefilled(n, kind)) ELSE EmptyDict
        /\ active_connections = << >>
        /\ session_connections = EmptyDict
        /\ cm_connection_sessions = EmptyDict
        /\ session_message_queues =
              IF kind = "acm" THEN Put(EmptyDict, "A", Prefilled(n, kind)) ELSE EmptyDict
        /\ sending = [p \in Senders |-> Idle]
        /\ received = [w \in WS |-> << >>]
        /\ closed = {}
        /\ accepted = {}
        /\ nsent = 0
        /\ InitSes(FALSE)

\* Sends to sessions without connections.
NextQueue ==
    \/ \E p \in Senders, s \in Sessions : send_json_to_user(p, s)
    \/ \E p \in Senders, s \in Sessions : send_to_user(p, s)
    \/ \E p \in Senders, s \in Sessions : send_to_session(p, s)

SpecQueue == InitQueue /\ [][NextQueue]_vars

\* UserConnectionManager with overlapping sends: each send_to_user /
\* send_json_to_user call runs as a coroutine of its own and suspends at every
\* connection's send, while connections attach and detach only between
\* sends (a connection attached when a send begins stays attached until the
\* send is over, unless the send itself prunes it).
NextOrder ==
    \/ \E ws \in WS, s \in Sessions : Quiet /\ ws \notin accepted /\ ucm_connect(ws, s)
    \/ \E ws \in WS : Quiet /\ ucm_disconnect_call(ws)
    \/ \E p \in Senders, s \in Sessions : send_json_to_user(p, s)
    \/ \E p \in Senders, s \in Sessions : send_to_user(p, s)
    \/ \E p \in Senders : ucm_send_resume(p)
    \/ \E ws \in WS : impl = "ucm" /\ TransportCloses(ws)

SpecOrder == InitUCM /\ [][NextOrder]_vars

\* ====================================================================
\* Part 2.  The session stores: UserSessionManager (impl = "usm"),
\* SessionManager of computer-use ("cu"), BrowserSessionManager ("bu")
\* ====================================================================
\* A session object as the stores construct it.  cleanups and torn are
\* history: how often the object's cleanup has been entered, and the sandbox
\* the object held when its cleanup reached "if self.desktop:" (0: none), and
\* whether the kill() of that sandbox raised.
NewSession(sid) ==
    [sid |-> sid, age |-> 0, desktop |-> 0, agent |-> FALSE,
     current_task |-> 0, stop_requested |-> FALSE, cleanups |-> 0, torn |-> 0,
     kill_raised |-> FALSE,
     \* UserSession only: stream_url / current_command are set (not None), and
     \* the lengths of websocket_connections and log_buffer
     stream_url |-> FALSE, current_command |-> FALSE,
     websocket_connections |-> 0, log_buffer |-> 0]

\* datetime.now() - self.last_activity > timedelta(...): age is the time since
\* last_activity in ticks, and stops counting once past the timeout.
is_expired(r) == r.age > SESSION_TIMEOUT

\* The session ids ever handed out.
UsedSids == {heap[u].sid : u \in DOMAIN heap}

\* The objects the store holds.
Stored(ses) == {ses[sid] : sid \in DOMAIN ses}

\* The frame of caller c is free for a new request.
FreeCaller(c) == calls[c].pc = "idle"

\* Callers are interchangeable: a new request takes the first free frame.
FirstFree(c) == c = "c2" => calls["c1"].pc # "idle"

\* A lookup that forgets to refresh last_activity.
update_activity_never(h, ses, sid) == h

\* session.update_activity() inside get_session
update_activity(h, ses, sid) ==
    IF sid \in DOMAIN ses THEN [h EXCEPT ![ses[sid]].age = 0] ELSE h

\* current_task and not current_task.done()
TaskLive(tk, t) == t # 0 /\ tk[t].st # "done"

\* A cancellation that never reaches the task.
cancel_lost(tk, t) == tk

\* Task.cancel(): a request the event loop delivers at the task's next step.
cancel(tk, t) ==
    IF t = 0 \/ tk[t].st = "done" THEN tk ELSE [tk EXCEPT ![t].cancel = TRUE]

\* The state a removal works on, threaded through its steps:
\*   todo  the session ids still to remove, wait the object whose task the
\*   removal is waiting for (0: none), rets the values cleanup_session /
\*   remove_session returned so far, raised: an exception left the removal
\*   (del raised KeyError), bad the sandboxes whose kill() raises.
Bundle(todo) ==
    [sessions |-> sessions, heap |-> heap, kills |-> kills, tasks |-> tasks,
     todo |-> todo, wait |-> 0, rets |-> << >>, raised |-> FALSE, bad |-> {}]

\* Sandbox.kill() is a call to a remote service: which sandboxes it fails for
\* is the environment's choice.
KillFailures == SUBSET (DOMAIN kills)

\* The removal state with the kill() failures of this step chosen.
WithFailures(st, bad) == [st EXCEPT !.bad = bad]

\* Entering cleanup() / cleanup_resources() of object u.
EnterCleanup(st, u) == [st EXCEPT !.heap[u].cleanups = @ + 1]

\* A cleanup that forgets the sandbox: the references are cleared and the
\* store entry deleted, but kill() is never called.
FinishCleanupNoKill(st, u) ==
    [st EXCEPT !.heap[u].torn = st.heap[u].desktop,
               !.heap[u].desktop = 0, !.heap[u].agent = FALSE,
               !.heap[u].current_task = 0,
               !.sessions = Del(st.sessions, st.heap[u].sid),
               !.todo = Tail(@), !.rets = Append(@, TRUE), !.wait = 0]

\* cleanup() / cleanup_resources() from "if self.desktop:" on.  kill() is
\* called on the sandbox the object holds.  When it raises:
\*   UserSession: the inner try swallows it, sandbox_instance = None follows;
\*   ComputerUseSession / BrowserUseSession: the outer except swallows it, and
\*   the "clear references" lines after the kill are skipped.
\* "Clear other resources" of UserSession.cleanup_resources.
ClearOther(r) ==
    [r EXCEPT !.stream_url = FALSE, !.current_command = FALSE,
              !.websocket_connections = 0, !.log_buffer = 0]

\* A cleanup whose failing kill() skips everything after it in every class:
\* the handle and the other resources stay as they were.
KillAndClearKeeps(st, u) ==
    LET r == st.heap[u]
        fails == r.desktop # 0 /\ r.desktop \in st.bad
        k == IF r.desktop # 0 THEN [st.kills EXCEPT ![r.desktop] = @ + 1]
             ELSE st.kills
        h == IF fails
             THEN [st.heap EXCEPT ![u].torn = r.desktop, ![u].kill_raised = TRUE]
             ELSE [st.heap EXCEPT ![u] =
                      [ClearOther(r) EXCEPT !.torn = r.desktop, !.desktop = 0,
                                            !.agent = FALSE, !.current_task = 0,
                                            !.kill_raised = FALSE]]
    IN [st EXCEPT !.kills = k, !.heap = h]

KillAndClear(st, u) ==
    LET r == st.heap[u]
        fails == r.desktop # 0 /\ r.desktop \in st.bad
        k == IF r.desktop # 0 THEN [st.kills EXCEPT ![r.desktop] = @ + 1]
             ELSE st.kills
        h == IF impl = "usm"
             THEN [st.heap EXCEPT ![u] =
                      [ClearOther(r) EXCEPT !.torn = r.desktop, !.desktop = 0,
                                            !.agent = FALSE, !.current_task = 0,
                                            !.kill_raised = fails]]
             ELSE IF fails
             THEN [st.heap EXCEPT ![u].torn = r.desktop, ![u].kill_raised = TRUE]
             ELSE [st.heap EXCEPT ![u].torn = r.desktop, ![u].desktop = 0,
                                  ![u].agent = FALSE, ![u].current_task = 0,
                                  ![u].kill_raised = fails]
    IN [st EXCEPT !.kills = k, !.heap = h]

\* A removal that tears the session down but leaves it in the store.
FinishCleanupNoDel(st, u) ==
    [KillAndClear(st, u) EXCEPT !.todo = Tail(@), !.rets = Append(@, TRUE),
                                !.wait = 0]

\* A removal whose failing kill() is not caught: the exception leaves
\* cleanup(), the record stays and the loop over the expired ids ends.
FinishCleanupPropagates(st, u) ==
    LET r == st.heap[u]
        st1 == KillAndClear(st, u)
    IN IF r.sid \in DOMAIN st.sessions /\ ~st1.heap[u].kill_raised
       THEN [st1 EXCEPT !.sessions = Del(st.sessions, r.sid),
                        !.todo = Tail(@), !.rets = Append(@, TRUE), !.wait = 0]
       ELSE [st1 EXCEPT !.todo = << >>, !.raised = TRUE, !.wait = 0]

\* cleanup() from the sandbox kill on, then del self.sessions[session_id]
\* (KeyError when the entry is gone: the exception leaves the loop).
FinishCleanup(st, u) ==
    LET r == st.heap[u]
        st1 == KillAndClear(st, u)
    IN IF r.sid \in DOMAIN st.sessions
       THEN [st1 EXCEPT !.sessions = Del(st.sessions, r.sid),
                        !.todo = Tail(@), !.rets = Append(@, TRUE), !.wait = 0]
       ELSE [st1 EXCEPT !.todo = << >>, !.raised = TRUE, !.wait = 0]

\* for session_id in todo: cleanup_session(session_id), up to the first await
\* that suspends (only ComputerUseSession.cleanup has one: wait_for on a task
\* that is still running) or to the end of the list.
RECURSIVE RunRemovals(_)
RunRemovals(st) ==
    IF st.todo = << >> THEN st
    ELSE LET sid == Head(st.todo) IN
         IF sid \notin DOMAIN st.sessions
         THEN RunRemovals([st EXCEPT !.todo = Tail(@),
                                     !.rets = Append(@, FALSE)])
         ELSE LET u == st.sessions[sid]
                  t == st.heap[u].current_task
                  st1 == EnterCleanup(st, u)
              IN IF impl = "cu" /\ TaskLive(st.tasks, t)
                 THEN [st1 EXCEPT !.tasks = cancel(@, t), !.wait = u]
                 ELSE RunRemovals(FinishCleanup(
                          [st1 EXCEPT !.tasks = IF impl = "bu" THEN cancel(@, t)
                                                ELSE @], u))

\* The expired session ids in the order self.sessions.items() yields them
\* (insertion order: older objects first).
RECURSIVE SidsOf(_, _)
SidsOf(h, us) ==
    IF us = {} THEN << >>
    ELSE LET u == CHOOSE x \in us : \A y \in us : x <= y
         IN << h[u].sid >> \o SidsOf(h, us \ {u})

Expired(ses, h) == {u \in Stored(ses) : is_expired(h[u])}

\* Removals by different callers of one store do not overlap here: the sweep
\* is the only caller of cleanup_session in the request path, and the
\* UserSessionManager serialises its callers with its lock.
NoRemovalRunning ==
    /\ sweep.pc # "wait"
    /\ \A c \in Callers : calls[c].pc \notin {"wait1", "wait2"}

\* ------------------------------------------------------------ store calls
\* A create_session that starts a sweep task at every call.
start_sweep_always(n) == n + 1

\* if self._cleanup_task is None or self._cleanup_task.done():
\*     self._cleanup_task = asyncio.create_task(self._periodic_cleanup())
\* n is the number of sweep tasks alive.  The UserSessionManager starts its
\* cleanup thread in __init__ and nowhere else.
start_sweep(n) ==
    IF impl = "usm" \/ n > 0 THEN n ELSE 1

\* A create_session whose id is not fresh (an id derived from the username
\* alone, say): whatever the store holds under it is replaced.
create_session_reuses(sid) ==
    /\ impl \in {"usm", "cu", "bu"}
    /\ Len(heap) < MaxRecords
    /\ sessions' = Put(sessions, sid, Len(heap) + 1)
    /\ heap' = Append(heap, NewSession(sid))
    /\ cleanup_task' = start_sweep(cleanup_task)
    /\ UNCHANGED << kills, tasks, calls, sweep, regVars >>

\* create_session(): a fresh id (uuid4), a new object, the sweep is scheduled.
create_session(sid) ==
    /\ impl \in {"usm", "cu", "bu"}
    /\ Len(heap) < MaxRecords
    /\ sid \notin UsedSids
    /\ sessions' = Put(sessions, sid, Len(heap) + 1)
    /\ heap' = Append(heap, NewSession(sid))
    /\ cleanup_task' = start_sweep(cleanup_task)
    /\ UNCHANGED << kills, tasks, calls, sweep, regVars >>

\* get_session(session_id) from a request: refreshes last_activity.
get_session(sid) ==
    /\ impl \in {"usm", "cu", "bu"}
    /\ sid \in DOMAIN sessions
    /\ heap[sessions[sid]].age # 0
    /\ heap' = update_activity(heap, sessions, sid)
    /\ UNCHANGED << sessions, kills, tasks, calls, sweep, cleanup_task, regVars >>

\* get_session(session_id) with its result: session = self.sessions.get(id),
\* update_activity() when there is one, return session (0 stands for None).
get_session_call(c, sid) ==
    /\ impl \in {"usm", "cu", "bu"}
    /\ FreeCaller(c)
    /\ heap' = update_activity(heap, sessions, sid)
    /\ calls' = [calls EXCEPT ![c] =
          [pc |-> "done", op |-> "get", sid |-> sid,
           ret |-> Get(sessions, sid, 0)]]
    /\ UNCHANGED << sessions, kills, tasks, sweep, cleanup_task, regVars >>

\* The caller has the session (or None) and goes away.
get_return(c) ==
    /\ calls[c].pc = "done"
    /\ calls[c].op = "get"
    /\ calls' = [calls EXCEPT ![c] = Idle]
    /\ UNCHANGED << sessions, heap, kills, tasks, sweep, cleanup_task, regVars >>

\* Time passes.
Tick ==
    /\ impl \in {"usm", "cu", "bu"}
    /\ \E u \in Stored(sessions) : ~is_expired(heap[u])
    /\ heap' = [u \in DOMAIN heap |->
                  IF u \in Stored(sessions) /\ ~is_expired(heap[u])
                  THEN [heap[u] EXCEPT !.age = @ + 1] ELSE heap[u]]
    /\ UNCHANGED << sessions, kills, tasks, calls, sweep, cleanup_task, regVars >>

\* session.sandbox_instance = <sandbox> (UserSession holds what its user of
\* the store assigns).
usm_attach_sandbox(sid) ==
    /\ impl = "usm"
    /\ sid \in DOMAIN sessions
    /\ heap[sessions[sid]].desktop = 0
    /\ Len(kills) < MaxSandboxes
    /\ kills' = Append(kills, 0)
    /\ heap' = [heap EXCEPT ![sessions[sid]].desktop = Len(kills) + 1]
    /\ UNCHANGED << sessions, tasks, calls, sweep, cleanup_task, regVars >>

\* session.stream_url = ..., session.current_command = ...,
\* session.websocket_connections.append(...), session.log_buffer.append(...):
\* the holder of a UserSession fills its resource fields.
usm_assign(sid) ==
    /\ impl = "usm"
    /\ sid \in DOMAIN sessions
    /\ ~heap[sessions[sid]].stream_url
    /\ heap' = [heap EXCEPT ![sessions[sid]] =
           [@ EXCEPT !.stream_url = TRUE, !.current_command = TRUE,
                     !.websocket_connections = 1, !.log_buffer = 1]]
    /\ UNCHANGED << sessions, kills, tasks, calls, sweep, cleanup_task, regVars >>

\* session.cleanup_resources() called on an object the caller holds (in the
\* store or not).  had is the sandbox the object held on entry, failed
\* whether its kill() raised, raised whether the call itself raised: both
\* try blocks catch Exception, so it never does.
cleanup_resources(c, u) ==
    /\ impl = "usm"
    /\ FreeCaller(c)
    /\ u \in DOMAIN heap
    /\ heap[u].cleanups < MaxCleanups
    /\ \E bad \in KillFailures :
       LET st == KillAndClear(EnterCleanup(WithFailures(Bundle(<< >>), bad), u), u)
       IN /\ heap' = st.heap
          /\ kills' = st.kills
          /\ calls' = [calls EXCEPT ![c] =
                [pc |-> "done", op |-> "cleanup", rec |-> u,
                 had |-> heap[u].desktop,
                 failed |-> heap[u].desktop \in bad, raised |-> FALSE]]
    /\ UNCHANGED << sessions, tasks, sweep, cleanup_task, regVars >>

\* The caller of cleanup_resources goes on.
cleanup_return(c) ==
    /\ calls[c].pc = "done"
    /\ calls[c].op = "cleanup"
    /\ calls' = [calls EXCEPT ![c] = Idle]
    /\ UNCHANGED << sessions, heap, kills, tasks, sweep, cleanup_task, regVars >>

\* ------------------------------------------------------------ the sweep
\* The frame a removal leaves behind: suspended in wait_for on the task of
\* object st.wait, or finished.
Parked(st, pcWait, pcDone, base) ==
    IF st.wait # 0
    THEN [base EXCEPT !.pc = pcWait, !.todo = st.todo, !.rec = st.wait,
                      !.task = st.heap[st.wait].current_task]
    ELSE [base EXCEPT !.pc = pcDone, !.todo = << >>, !.rec = 0, !.task = 0]

\* One pass of the periodic sweep, from the computation of the expired list to
\* its first suspension (or its end).  exp remembers the objects that were
\* expired when the pass began.
SweepBegin ==
    /\ cleanup_task > 0
    /\ sweep.pc = "idle"
    /\ NoRemovalRunning
    /\ Expired(sessions, heap) # {}
    /\ \E bad \in KillFailures :
       LET ex == Expired(sessions, heap)
           st == RunRemovals(WithFailures(Bundle(SidsOf(heap, ex)), bad))
       IN /\ sessions' = st.sessions
          /\ heap' = st.heap
          /\ kills' = st.kills
          /\ tasks' = st.tasks
          /\ sweep' = Parked(st, "wait", "fin",
                             [pc |-> "idle", todo |-> << >>, rec |-> 0,
                              task |-> 0, exp |-> ex, raised |-> st.raised,
                              timed_out |-> FALSE])
    /\ UNCHANGED << calls, cleanup_task, regVars >>

\* UserSessionManager.cleanup_expired_sessions, run by the cleanup thread
\* under the store's lock.
cleanup_expired_sessions == impl = "usm" /\ SweepBegin

\* SessionManager / BrowserSessionManager.cleanup_inactive_sessions, run by
\* _periodic_cleanup.
cleanup_inactive_sessions == impl \in {"cu", "bu"} /\ SweepBegin

\* The sweep resumes when the task it waits for has finished (wait_for
\* returns or raises; both are swallowed), completes that cleanup and goes on
\* with the rest of its list.
sweep_resume ==
    /\ sweep.pc = "wait"
    /\ tasks[sweep.task].st = "done"
    /\ \E bad \in KillFailures :
       LET st0 == [Bundle(sweep.todo) EXCEPT !.wait = sweep.rec, !.bad = bad]
           st == RunRemovals(FinishCleanup(st0, sweep.rec))
       IN /\ sessions' = st.sessions
          /\ heap' = st.heap
          /\ kills' = st.kills
          /\ tasks' = st.tasks
          /\ sweep' = Parked(st, "wait", "fin",
                             [sweep EXCEPT !.raised = st.raised])
    /\ UNCHANGED << calls, cleanup_task, regVars >>

\* The 3 seconds of the wait_for in ComputerUseSession.cleanup run out while
\* the task has not settled: wait_for cancels the task once more and goes on
\* waiting until the task has ended; the TimeoutError it then raises is
\* swallowed by cleanup.
sweep_timeout ==
    /\ sweep.pc = "wait"
    /\ ~sweep.timed_out
    /\ tasks[sweep.task].st # "done"
    /\ tasks' = cancel(tasks, sweep.task)
    /\ sweep' = [sweep EXCEPT !.timed_out = TRUE]
    /\ UNCHANGED << sessions, heap, kills, calls, cleanup_task, regVars >>

\* Back in the loop of _periodic_cleanup / cleanup_worker: sleep again.
periodic_sleep ==
    /\ sweep.pc = "fin"
    /\ sweep' = Idle
    /\ UNCHANGED << sessions, heap, kills, tasks, calls, cleanup_task, regVars >>

\* --------------------------------------------- removing one session twice
\* A caller removes a session, looks it up and removes it again
\* (remove_session of the UserSessionManager, cleanup_session of the other
\* two stores).  u1/r1 and u2/r2 are the object each call found (0: none) and
\* the value it returned, g the object get_session returned in between.
remove_first(c, sid) ==
    /\ impl \in {"usm", "cu", "bu"}
    /\ FreeCaller(c)
    /\ NoRemovalRunning
    /\ \A d \in Callers : calls[d].pc # "between"
    /\ sid \in DOMAIN sessions
    /\ \E bad \in KillFailures :
       LET st == RunRemovals(WithFailures(Bundle(<< sid >>), bad))
       IN /\ sessions' = st.sessions
          /\ heap' = st.heap
          /\ kills' = st.kills
          /\ tasks' = st.tasks
          /\ calls' = [calls EXCEPT ![c] =
                Parked(st, "wait1", "between",
                       [pc |-> "idle", op |-> "remove", sid |-> sid,
                        todo |-> << >>, rec |-> 0, task |-> 0,
                        u1 |-> sessions[sid], r1 |-> st.rets = << TRUE >>,
                        g |-> 0, u2 |-> 0, r2 |-> FALSE])]
    /\ UNCHANGED << sweep, cleanup_task, regVars >>

\* A suspended removal call resumes once the task it waits for is done.
remove_resume(c) ==
    /\ calls[c].pc \in {"wait1", "wait2"}
    /\ tasks[calls[c].task].st = "done"
    /\ \E bad \in KillFailures :
       LET f == calls[c]
           st0 == [Bundle(f.todo) EXCEPT !.wait = f.rec, !.bad = bad]
           st == FinishCleanup(st0, f.rec)
           ret == st.rets = << TRUE >>
       IN /\ sessions' = st.sessions
          /\ heap' = st.heap
          /\ kills' = st.kills
          /\ tasks' = st.tasks
          /\ calls' = [calls EXCEPT ![c] =
                IF f.pc = "wait1"
                THEN [f EXCEPT !.pc = "between", !.r1 = ret, !.todo = << >>,
                               !.rec = 0, !.task = 0]
                ELSE [f EXCEPT !.pc = "done", !.r2 = ret, !.todo = << >>,
                               !.rec = 0, !.task = 0]]
    /\ UNCHANGED << sweep, cleanup_task, regVars >>

\* get_session(sid), then the second removal of the same id.
remove_second(c) ==
    /\ calls[c].pc = "between"
    /\ NoRemovalRunning
    /\ \E bad \in KillFailures :
       LET f == calls[c]
           h == update_activity(heap, sessions, f.sid)
           st == RunRemovals([Bundle(<< f.sid >>) EXCEPT !.heap = h,
                                                          !.bad = bad])
       IN /\ sessions' = st.sessions
          /\ heap' = st.heap
          /\ kills' = st.kills
          /\ tasks' = st.tasks
          /\ calls' = [calls EXCEPT ![c] =
                Parked(st, "wait2", "done",
                       [f EXCEPT !.g = Get(sessions, f.sid, 0),
                                 !.u2 = Get(sessions, f.sid, 0),
                                 !.r2 = st.rets = << TRUE >>])]
    /\ UNCHANGED << sweep, cleanup_task, regVars >>

\* The caller has its results and goes away.
remove_return(c) ==
    /\ calls[c].pc = "done"
    /\ calls[c].op = "remove"
    /\ calls' = [calls EXCEPT ![c] = Idle]
    /\ UNCHANGED << sessions, heap, kills, tasks, sweep, cleanup_task, regVars >>

\* ------------------------------------------------------------- shutdown
\* SessionManager / BrowserSessionManager.shutdown up to its first suspension:
\* self._cleanup_task.cancel(), then cleanup_session for every id the store
\* holds.  The cancel ends a sweep that sleeps; a sweep suspended in the
\* wait_for of a cleanup swallows the cancellation (except CancelledError:
\* pass) and goes on when the task it waits for is done.  Nothing keeps
\* shutdown from starting while the sweep is inside a cleanup.
shutdown(c) ==
    /\ impl \in {"cu", "bu"}
    /\ FreeCaller(c)
    /\ DOMAIN sessions # {}
    /\ \E bad \in KillFailures :
       LET st == RunRemovals(WithFailures(
                    Bundle(SidsOf(heap, Stored(sessions))), bad))
       IN /\ sessions' = st.sessions
          /\ heap' = st.heap
          /\ kills' = st.kills
          /\ tasks' = st.tasks
          /\ calls' = [calls EXCEPT ![c] =
                Parked(st, "sh_wait", "done",
                       [pc |-> "idle", op |-> "shutdown", todo |-> << >>,
                        rec |-> 0, task |-> 0, raised |-> st.raised])]
    /\ cleanup_task' = IF sweep.pc = "wait" THEN cleanup_task ELSE 0
    /\ sweep' = IF sweep.pc = "wait" THEN sweep ELSE Idle
    /\ UNCHANGED regVars

\* shutdown resumes when the task its cleanup waits for is done: the rest of
\* that cleanup_session, then the remaining ids.
shutdown_resume(c) ==
    /\ calls[c].pc = "sh_wait"
    /\ tasks[calls[c].task].st = "done"
    /\ \E bad \in KillFailures :
       LET f == calls[c]
           st0 == [Bundle(f.todo) EXCEPT !.wait = f.rec, !.bad = bad]
           st == RunRemovals(FinishCleanup(st0, f.rec))
       IN /\ sessions' = st.sessions
          /\ heap' = st.heap
          /\ kills' = st.kills
          /\ tasks' = st.tasks
          /\ calls' = [calls EXCEPT ![c] =
                Parked(st, "sh_wait", "done", [f EXCEPT !.raised = st.raised])]
    /\ UNCHANGED << sweep, cleanup_task, regVars >>

\* shutdown is over (it has returned, or raised).
shutdown_return(c) ==
    /\ calls[c].pc = "done"
    /\ calls[c].op = "shutdown"
    /\ calls' = [calls EXCEPT ![c] = Idle]
    /\ UNCHANGED << sessions, heap, kills, tasks, sweep, cleanup_task, regVars >>

InitStore(kind) ==
    /\ impl = kind
    /\ user_connections = EmptyDict
    /\ connection_sessions = EmptyDict
    /\ user_message_queues = EmptyDict
    /\ active_connections = << >>
    /\ session_connections = EmptyDict
    /\ cm_connection_sessions = EmptyDict
    /\ session_message_queues = EmptyDict
    /\ sending = [p \in Senders |-> Idle]
    /\ received = [w \in WS |-> << >>]
    /\ closed = {}
    /\ accepted = {}
    /\ nsent = 0
    /\ InitSes(kind = "usm")

\* ====================================================================
\* Part 3.  The request handlers and background tasks of computer-use
\* (sandbox_computer_use.py) and browser-use (sandbox_browser_use.py)
\* ====================================================================
\* if not session: session = <Session>(session_id);
\*                 <store>.sessions[session_id] = session
\* followed by get_session(session_id): the store and heap a handler works on.
GetOrInsertAlways(sid) ==
    [sessions |-> Put(sessions, sid, Len(heap) + 1),
     heap |-> Append(heap, NewSession(sid))]

GetOrInsert(sid) ==
    IF sid \in DOMAIN sessions
    THEN [sessions |-> sessions, heap |-> update_activity(heap, sessions, sid)]
    ELSE [sessions |-> Put(sessions, sid, Len(heap) + 1),
          heap |-> Append(heap, NewSession(sid))]

CanInsert(sid) == sid \in DOMAIN sessions \/ Len(heap) < MaxRecords

\* Requests that are on their way to creating a sandbox / a task: they count
\* against the bounds when a new request is admitted.
PendingSandboxes ==
    Cardinality({c \in Callers : calls[c].pc \in {"s_send", "r_start"}})

PendingTasks ==
    Cardinality({c \in Callers : calls[c].pc \in {"r_start", "r_started", "r_send"}})

\* ------------------------------------------------- start_computer_desktop
\* start_computer_desktop / start_desktop up to the first await
\* (send_to_session "Starting ... desktop"): get or insert the session.
start_desktop_begin(c, sid) ==
    /\ impl \in {"cu", "bu"}
    /\ FreeCaller(c)
    /\ CanInsert(sid)
    /\ Len(kills) + PendingSandboxes < MaxSandboxes
    /\ LET gi == GetOrInsert(sid)
       IN /\ sessions' = gi.sessions
          /\ heap' = gi.heap
          /\ calls' = [calls EXCEPT ![c] =
                [pc |-> "s_send", op |-> "start", sid |-> sid,
                 rec |-> gi.sessions[sid]]]
    /\ UNCHANGED << kills, tasks, sweep, cleanup_task, regVars >>

\* session.desktop = Sandbox(...): a new sandbox replaces whatever the object
\* held; session.agent = ComputerUseAgent(session.desktop).
NewDesktop(h, u) ==
    [h EXCEPT ![u].desktop = Len(kills) + 1, ![u].agent = TRUE]

\* ... and from there to the return: the sandbox is created on the object the
\* handler looked up before the await; the remaining awaits change nothing.
start_desktop_resume(c) ==
    /\ calls[c].pc = "s_send"
    /\ heap' = NewDesktop(heap, calls[c].rec)
    /\ kills' = Append(kills, 0)
    /\ calls' = [calls EXCEPT ![c] = Idle]
    /\ UNCHANGED << sessions, tasks, sweep, cleanup_task, regVars >>

\* -------------------------------------------------- kill_computer_desktop
\* kill_computer_desktop / kill_desktop up to the first await: the session
\* exists and holds a desktop.
kill_desktop_begin(c, sid) ==
    /\ impl \in {"cu", "bu"}
    /\ FreeCaller(c)
    /\ sid \in DOMAIN sessions
    /\ heap[sessions[sid]].desktop # 0
    /\ heap' = update_activity(heap, sessions, sid)
    /\ calls' = [calls EXCEPT ![c] =
          [pc |-> "k_send", op |-> "kill", sid |-> sid, rec |-> sessions[sid]]]
    /\ UNCHANGED << sessions, kills, tasks, sweep, cleanup_task, regVars >>

\* ... after the await.  computer-use: cancel the task and clear the slot,
\* then session.desktop.kill() and clear the desktop.  browser-use: kill the
\* command, await two more sends around "pkill", then kill and clear.  When
\* the object has lost its desktop meanwhile, .kill() on None raises and the
\* handler reports the error.  The record stays in the store.  torn keeps, as
\* history, the sandbox the handler killed.
kill_desktop_resume(c) ==
    /\ calls[c].pc \in {"k_send", "k_pkill"}
    /\ LET u == calls[c].rec
           r == heap[u]
       IN IF impl = "bu" /\ calls[c].pc = "k_send"
          THEN /\ tasks' = cancel(tasks, r.current_task)
               /\ calls' = [calls EXCEPT ![c].pc = "k_pkill"]
               /\ UNCHANGED << heap, kills >>
          ELSE /\ tasks' = IF impl = "cu" THEN cancel(tasks, r.current_task)
                           ELSE tasks
               /\ calls' = [calls EXCEPT ![c] = Idle]
               /\ IF r.desktop # 0
                  THEN /\ kills' = [kills EXCEPT ![r.desktop] = @ + 1]
                       /\ heap' = [heap EXCEPT ![u].current_task = 0,
                                               ![u].desktop = 0,
                                               ![u].agent = FALSE,
                                               ![u].torn = r.desktop]
                  ELSE /\ kills' = kills
                       /\ heap' = IF impl = "cu"
                                  THEN [heap EXCEPT ![u].current_task = 0]
                                  ELSE heap
    /\ UNCHANGED << sessions, sweep, cleanup_task, regVars >>

\* ------------------------------------------------ a start request fails
\* What a handler passes to send_to_session: the event's type and the session
\* id it is addressed to.
Event(type, sid) == [type |-> type, to |-> sid]

\* The frame of a start request that has returned {"status": "error"}.  It
\* keeps, as history, the object the handler worked on, the sandbox it had
\* created before the failure (0: none) and the events it sent after it.
StartFailed(f, made, events) ==
    [pc |-> "s_done", op |-> "start", sid |-> f.sid, rec |-> f.rec,
     ret |-> "error", made |-> made, events |-> events]

\* start_computer_desktop / start_desktop: something inside the try raises.
\* Either Sandbox(...) itself raises and session.desktop keeps its old value,
\* or the sandbox is assigned to session.desktop and a later line raises
\* (stream.start, get_auth_key, get_url, ComputerUseAgent(...)).  The except
\* branch logs, sends one "error" event to session_id and returns the error.
start_desktop_fails(c) ==
    /\ calls[c].pc = "s_send"
    /\ \E partial \in BOOLEAN :
          LET f == calls[c]
              d == Len(kills) + 1
          IN /\ heap' = IF partial THEN [heap EXCEPT ![f.rec].desktop = d]
                        ELSE heap
             /\ kills' = IF partial THEN Append(kills, 0) ELSE kills
             /\ calls' = [calls EXCEPT ![c] =
                   StartFailed(f, IF partial THEN d ELSE 0,
                               << Event("error", f.sid) >>)]
    /\ UNCHANGED << sessions, tasks, sweep, cleanup_task, regVars >>

\* The caller has the error result and goes away.
start_return(c) ==
    /\ calls[c].pc = "s_done"
    /\ calls' = [calls EXCEPT ![c] = Idle]
    /\ UNCHANGED << sessions, heap, kills, tasks, sweep, cleanup_task, regVars >>

\* ------------------------------------------------ start_agentcore_browser
\* AgentcoreSessionManager.cleanup_session after browser_session.close():
\* viewer_server.stop(), browser_client.stop() (each under suppress), then
\* del self.sessions[session_id].  The record is looked up by id; the fields
\* of the object are left as they are.  desktop stands for browser_client,
\* kills for the stop() calls a client has received.
ac_cleanup_session(ses, h, k, sid) ==
    IF sid \notin DOMAIN ses THEN [sessions |-> ses, heap |-> h, kills |-> k]
    ELSE LET u == ses[sid]
             d == h[u].desktop
         IN [sessions |-> Del(ses, sid),
             heap |-> [h EXCEPT ![u].cleanups = @ + 1, ![u].torn = d],
             kills |-> IF d # 0 THEN [k EXCEPT ![d] = @ + 1] ELSE k]

\* start_agentcore_browser up to "await session.browser_session.start()":
\* get or insert the session, session.browser_client = BrowserClient(region),
\* start the client and the viewer server.  When one of these raises, the
\* except branch runs cleanup_session (browser_session is not set yet, so
\* nothing is awaited) and returns the error; no event is sent.
start_agentcore_begin(c, sid) ==
    /\ impl = "ac"
    /\ FreeCaller(c)
    /\ CanInsert(sid)
    /\ Len(kills) + PendingSandboxes < MaxSandboxes
    /\ \E raises \in BOOLEAN :
          LET gi == GetOrInsert(sid)
              u == gi.sessions[sid]
              d == Len(kills) + 1
              h == [gi.heap EXCEPT ![u].desktop = d]
              f == [pc |-> "s_send", op |-> "start", sid |-> sid, rec |-> u]
              cl == ac_cleanup_session(gi.sessions, h, Append(kills, 0), sid)
          IN IF raises
             THEN /\ sessions' = cl.sessions
                  /\ heap' = cl.heap
                  /\ kills' = cl.kills
                  /\ calls' = [calls EXCEPT ![c] = StartFailed(f, d, << >>)]
             ELSE /\ sessions' = gi.sessions
                  /\ heap' = h
                  /\ kills' = Append(kills, 0)
                  /\ calls' = [calls EXCEPT ![c] =
                        [f EXCEPT !.pc = "a_start"] @@ [made |-> d]]
    /\ UNCHANGED << tasks, sweep, cleanup_task, regVars >>

\* ... browser_session.start() returns: bedrock_chat is built, the
\* "agentcore_browser_started" event is sent and the handler returns success;
\* or it raises, and the except branch enters cleanup_session, which awaits
\* browser_session.close().
start_agentcore_resume(c) ==
    /\ calls[c].pc = "a_start"
    /\ \E raises \in BOOLEAN :
          calls' = [calls EXCEPT ![c] =
              IF raises THEN [calls[c] EXCEPT !.pc = "a_close"] ELSE Idle]
    /\ UNCHANGED << sessions, heap, kills, tasks, sweep, cleanup_task, regVars >>

\* ... close() is over: the rest of cleanup_session, then the error result.
start_agentcore_fails(c) ==
    /\ calls[c].pc = "a_close"
    /\ LET f == calls[c]
           cl == ac_cleanup_session(sessions, heap, kills, f.sid)
       IN /\ sessions' = cl.sessions
          /\ heap' = cl.heap
          /\ kills' = cl.kills
          /\ calls' = [calls EXCEPT ![c] = StartFailed(f, f.made, << >>)]
    /\ UNCHANGED << tasks, sweep, cleanup_task, regVars >>

\* ------------------------------------------------------ background tasks
\* A background task as created: via "task" by asyncio.create_task, via "bg"
\* by BackgroundTasks.add_task (it then runs in the request's own task).
\* events is history: what the task sent to its session when it left its body.
NewTask(sid, via) ==
    [sid |-> sid, via |-> via, st |-> "new", cancel |-> FALSE, how |-> "none",
     events |-> << >>]

\* The send of the branch by which a task leaves its body:
\*   the body returns: "task_completed"; except Exception: "error";
\*   except CancelledError (computer-use only): "info", then re-raise;
\*   no agent (computer-use): "error".
\* browser-use has no CancelledError branch: a cancelled task sends nothing.
TaskEvents(sid, how) ==
    CASE how = "ok" -> << Event("task_completed", sid) >>
      [] how \in {"error", "noagent"} -> << Event("error", sid) >>
      [] how = "cancelled" /\ impl = "cu" -> << Event("info", sid) >>
      [] OTHER -> << >>

\* A finally block that forgets the slot: only the activity is refreshed.
task_finally_keeps(h, ses, sid) ==
    IF sid \in DOMAIN ses THEN [h EXCEPT ![ses[sid]].age = 0] ELSE h

\* finally: session = <store>.get_session(session_id)
\*          if session: session.current_task = None
\*                      session.stop_requested = False
task_finally_heap(h, ses, sid) ==
    IF sid \in DOMAIN ses
    THEN [h EXCEPT ![ses[sid]].age = 0, ![ses[sid]].current_task = 0,
                   ![ses[sid]].stop_requested = FALSE]
    ELSE h

\* The first step of run_computer_task_in_background / run_task_in_background.
\* A task cancelled before its first step ends without entering the coroutine
\* body.  Otherwise: look the session up; without a session (browser-use:
\* without a desktop) return through finally; else occupy the slot and run.
task_start(t) ==
    /\ impl \in {"cu", "bu"}
    /\ tasks[t].st = "new"
    /\ LET sid == tasks[t].sid
           found == sid \in DOMAIN sessions
           r == heap[sessions[sid]]
           h == update_activity(heap, sessions, sid)
       IN IF tasks[t].cancel
          THEN /\ tasks' = [tasks EXCEPT ![t].st = "done", ![t].how = "unstarted"]
               /\ heap' = heap
          ELSE IF ~found \/ (impl = "bu" /\ r.desktop = 0)
          THEN /\ tasks' = [tasks EXCEPT ![t].st = "done", ![t].how = "nosession"]
               /\ heap' = task_finally_heap(h, sessions, sid)
          ELSE IF impl = "cu" /\ ~r.agent
          THEN /\ tasks' = [tasks EXCEPT ![t].st = "closing", ![t].how = "noagent",
                                         ![t].events = TaskEvents(sid, "noagent")]
               /\ heap' = h
          ELSE /\ tasks' = [tasks EXCEPT ![t].st = "run"]
               /\ heap' = [h EXCEPT ![sessions[sid]].current_task = t,
                                    ![sessions[sid]].stop_requested =
                                        IF impl = "cu" THEN FALSE ELSE @]
    /\ UNCHANGED << sessions, kills, calls, sweep, cleanup_task, regVars >>

\* The running task leaves its body: the agent / command returns (ok), raises
\* (error), or a requested cancellation is delivered at the await
\* (cancelled).  The except branches await a send before finally runs.
task_end(t, outcome) ==
    /\ impl \in {"cu", "bu"}
    /\ tasks[t].st = "run"
    /\ LET how == IF tasks[t].cancel THEN "cancelled" ELSE outcome
       IN tasks' = [tasks EXCEPT ![t].st = "closing", ![t].how = how,
                                 ![t].events = TaskEvents(tasks[t].sid, how)]
    /\ UNCHANGED << sessions, heap, kills, calls, sweep, cleanup_task, regVars >>

\* The finally block of the task, then the task is done.
task_finally(t) ==
    /\ impl \in {"cu", "bu"}
    /\ tasks[t].st = "closing"
    /\ tasks' = [tasks EXCEPT ![t].st = "done"]
    /\ heap' = task_finally_heap(heap, sessions, tasks[t].sid)
    /\ UNCHANGED << sessions, kills, calls, sweep, cleanup_task, regVars >>

\* --------------------------------------------------- run_computer_use_task
\* The frame of a run request.  t0 is the task handle the session held when
\* the request arrived, n0 the number of tasks created until then.
RunFrame(pc, sid, u, via, t0, ret) ==
    [pc |-> pc, op |-> "run", sid |-> sid, rec |-> u, via |-> via,
     t0 |-> t0, n0 |-> Len(tasks), ret |-> ret]

\* A handler that forgets the slot check: with an agent it always goes on.
check_running_never(f, h, tk) ==
    IF ~h[f.rec].agent THEN [f EXCEPT !.pc = "done", !.ret = "no_agent"]
    ELSE [f EXCEPT !.pc = "r_send"]

\* "if session.current_task and not session.current_task.done(): return error"
\* and, when the slot is free, on to the await of the "Running ..." send.
check_running(f, h, tk) ==
    IF ~h[f.rec].agent THEN [f EXCEPT !.pc = "done", !.ret = "no_agent"]
    ELSE IF TaskLive(tk, h[f.rec].current_task)
    THEN [f EXCEPT !.pc = "done", !.ret = "already_running"]
    ELSE [f EXCEPT !.pc = "r_send"]

\* run_computer_use_task(query, session_id, sandbox_id, background_tasks) up to
\* its first await.  attach: "none" (no sandbox_id, or the one the session
\* holds), "ok" / "fail" (another sandbox_id; Sandbox(sandbox_id=...) returns
\* or raises).  via: background_tasks given ("bg") or not ("task").
run_computer_use_task(c, sid, via, attach) ==
    /\ impl = "cu"
    /\ FreeCaller(c)
    /\ CanInsert(sid)
    /\ Len(tasks) + PendingTasks < MaxTasks
    /\ LET gi == GetOrInsert(sid)
           u == gi.sessions[sid]
           r == gi.heap[u]
           f == RunFrame("r_start", sid, u, via, r.current_task, "none")
       IN /\ sessions' = gi.sessions
          /\ IF r.desktop = 0
             THEN \* await start_computer_desktop(session_id)
                  /\ attach = "none"
                  /\ Len(kills) + PendingSandboxes < MaxSandboxes
                  /\ heap' = gi.heap
                  /\ kills' = kills
                  /\ calls' = [calls EXCEPT ![c] = f]
             ELSE IF attach = "fail"
             THEN /\ heap' = gi.heap
                  /\ kills' = kills
                  /\ calls' = [calls EXCEPT ![c] =
                                 [f EXCEPT !.pc = "done", !.ret = "connect_failed"]]
             ELSE IF attach = "ok"
             THEN /\ Len(kills) + PendingSandboxes < MaxSandboxes
                  /\ heap' = NewDesktop(gi.heap, u)
                  /\ kills' = Append(kills, 0)
                  /\ calls' = [calls EXCEPT ![c] = check_running(f, heap', tasks)]
             ELSE /\ heap' = gi.heap
                  /\ kills' = kills
                  /\ calls' = [calls EXCEPT ![c] = check_running(f, heap', tasks)]
    /\ UNCHANGED << tasks, sweep, cleanup_task, regVars >>

\* run_task(query, session_id, background_tasks) of browser-use up to its
\* await: the session must exist and hold a desktop; there is no check of the
\* command slot.  setup_env(session_id, background_tasks) reads the same up
\* to the text of its message and the coroutine it hands over, which occupies
\* the slot and clears it in its finally like run_task_in_background.
run_task(c, sid, via) ==
    /\ impl = "bu"
    /\ FreeCaller(c)
    /\ Len(tasks) + PendingTasks < MaxTasks
    /\ sid \in DOMAIN sessions
    /\ heap[sessions[sid]].desktop # 0
    /\ heap' = update_activity(heap, sessions, sid)
    /\ calls' = [calls EXCEPT ![c] =
          RunFrame("r_send", sid, sessions[sid], via,
                   heap[sessions[sid]].current_task, "none")]
    /\ UNCHANGED << sessions, kills, tasks, sweep, cleanup_task, regVars >>

\* The steps of a suspended run request:
\*   r_start    inside start_computer_desktop, after its first send: create
\*              the sandbox and the agent;
\*   r_started  back from start_computer_desktop: agent and slot checks;
\*   r_send     after the "Running ..." send: hand the task to
\*              BackgroundTasks, or create it and store it in the slot.
run_resume(c) ==
    /\ calls[c].pc \in {"r_start", "r_started", "r_send"}
    /\ LET f == calls[c]
           u == f.rec
       IN CASE f.pc = "r_start" ->
                 /\ heap' = NewDesktop(heap, u)
                 /\ kills' = Append(kills, 0)
                 /\ calls' = [calls EXCEPT ![c].pc = "r_started"]
                 /\ tasks' = tasks
            [] f.pc = "r_started" ->
                 /\ calls' = [calls EXCEPT ![c] = check_running(f, heap, tasks)]
                 /\ UNCHANGED << heap, kills, tasks >>
            [] f.pc = "r_send" ->
                 /\ tasks' = Append(tasks, NewTask(f.sid, f.via))
                 /\ heap' = IF impl = "cu" /\ f.via = "task"
                            THEN [heap EXCEPT ![u].current_task = Len(tasks) + 1]
                            ELSE heap
                 /\ kills' = kills
                 /\ calls' = [calls EXCEPT ![c].pc = "done", ![c].ret = "started"]
    /\ UNCHANGED << sessions, sweep, cleanup_task, regVars >>

\* The request has its result; the handler returns.
run_return(c) ==
    /\ calls[c].pc = "done"
    /\ calls[c].op = "run"
    /\ calls' = [calls EXCEPT ![c] = Idle]
    /\ UNCHANGED << sessions, heap, kills, tasks, sweep, cleanup_task, regVars >>

\* ------------------------------------------------------ stop_computer_task
\* stop_computer_task(session_id) up to its first await: the session exists
\* and its slot holds a task that is not done.  t is that task, started
\* whether it had entered its body.
stop_computer_task(c, sid) ==
    /\ impl = "cu"
    /\ FreeCaller(c)
    /\ sid \in DOMAIN sessions
    /\ TaskLive(tasks, heap[sessions[sid]].current_task)
    /\ heap' = update_activity(heap, sessions, sid)
    /\ calls' = [calls EXCEPT ![c] =
          [pc |-> "st_send", op |-> "stop", sid |-> sid, rec |-> sessions[sid],
           t |-> heap[sessions[sid]].current_task,
           started |-> tasks[heap[sessions[sid]].current_task].st = "run",
           task |-> 0, ret |-> "none", timed_out |-> FALSE]]
    /\ UNCHANGED << sessions, kills, tasks, sweep, cleanup_task, regVars >>

\* A stop that treats the timeout of its wait as a failure.
wait_result_strict(f) == IF f.timed_out THEN "error" ELSE "success"

\* try: await asyncio.wait_for(session.current_task, timeout=3.0)
\* except TimeoutError: warning; except CancelledError: info.  Both branches
\* fall through to the closing send and the success result.
wait_result(f) == "success"

\* The 3 seconds of wait_for run out while the task has not settled:
\* wait_for cancels the task once more and goes on waiting until the task has
\* ended, and only then raises TimeoutError.
stop_timeout(c) ==
    /\ calls[c].pc = "st_wait"
    /\ ~calls[c].timed_out
    /\ tasks[calls[c].task].st # "done"
    /\ tasks' = cancel(tasks, calls[c].task)
    /\ calls' = [calls EXCEPT ![c].timed_out = TRUE]
    /\ UNCHANGED << sessions, heap, kills, sweep, cleanup_task, regVars >>

\* The steps of a suspended stop request:
\*   st_send  after the "Stopping ..." send: set stop_requested, cancel the
\*            task in the slot and wait for it (an empty slot makes .cancel()
\*            raise: the except branch reports the error);
\*   st_wait  wait_for has returned or raised: the task is done;
\*   st_fin   after the closing send: finally resets stop_requested.
stop_resume(c) ==
    /\ calls[c].pc \in {"st_send", "st_wait", "st_fin"}
    /\ LET f == calls[c]
           u == f.rec
           ct == heap[u].current_task
       IN CASE f.pc = "st_send" ->
                 /\ heap' = [heap EXCEPT ![u].stop_requested = TRUE]
                 /\ tasks' = cancel(tasks, ct)
                 /\ calls' = [calls EXCEPT ![c] =
                       IF ct = 0 THEN [f EXCEPT !.pc = "st_fin", !.ret = "error"]
                       ELSE [f EXCEPT !.pc = "st_wait", !.task = ct]]
            [] f.pc = "st_wait" ->
                 /\ tasks[f.task].st = "done"
                 /\ calls' = [calls EXCEPT ![c].pc = "st_fin",
                                           ![c].ret = wait_result(f)]
                 /\ UNCHANGED << heap, tasks >>
            [] f.pc = "st_fin" ->
                 /\ heap' = [heap EXCEPT ![u].stop_requested = FALSE]
                 /\ calls' = [calls EXCEPT ![c].pc = "done"]
                 /\ tasks' = tasks
    /\ UNCHANGED << sessions, kills, sweep, cleanup_task, regVars >>

stop_return(c) ==
    /\ calls[c].pc = "done"
    /\ calls[c].op = "stop"
    /\ calls' = [calls EXCEPT ![c] = Idle]
    /\ UNCHANGED << sessions, heap, kills, tasks, sweep, cleanup_task, regVars >>

\* ----------------------------------------------------------- the systems
\* One request handler at a time (caller c1) acting on the sessions of a
\* store: desktops are started and killed, a task is started and runs.
NextStoreHandlers ==
    \/ \E sid \in SIDs : start_desktop_begin("c1", sid)
    \/ start_desktop_resume("c1")
    \/ \E sid \in SIDs : kill_desktop_begin("c1", sid)
    \/ kill_desktop_resume("c1")
    \/ \E sid \in SIDs, via \in {"bg", "task"} :
          Len(tasks) < MaxStoreTasks /\ run_computer_use_task("c1", sid, via, "none")
    \/ run_resume("c1")
    \/ run_return("c1")
    \/ \E t \in DOMAIN tasks : task_start(t)
    \/ \E t \in DOMAIN tasks : task_end(t, "ok")
    \/ \E t \in DOMAIN tasks : task_finally(t)

\* The three stores under their periodic sweep.
NextSweep ==
    \/ \E sid \in SIDs : create_session(sid)
    \/ \E sid \in SIDs : get_session(sid)
    \/ Tick
    \/ \E sid \in SIDs : usm_attach_sandbox(sid)
    \/ cleanup_expired_sessions
    \/ cleanup_inactive_sessions
    \/ sweep_resume
    \/ periodic_sleep
    \/ NextStoreHandlers

InitStores == \E kind \in {"usm", "cu", "bu"} : InitStore(kind)

\* The computer-use store under its sweep, with the bounded wait of cleanup
\* running out or not, and with the scheduling of the event loop: a task
\* that has been started, or cancelled at an await, or is in its finally
\* block gets its next step, and the sweep is resumed once the task it waits
\* for is done.
TaskStep ==
    \E t \in DOMAIN tasks :
        \/ task_start(t)
        \/ tasks[t].cancel /\ task_end(t, "ok")
        \/ task_finally(t)

NextSweepLive ==
    \/ create_session("s1")
    \/ Tick
    \/ cleanup_inactive_sessions
    \/ sweep_resume
    \/ sweep_timeout
    \/ periodic_sleep
    \/ start_desktop_begin("c1", "s1")
    \/ start_desktop_resume("c1")
    \/ \E via \in {"bg", "task"} :
          Len(tasks) < MaxStoreTasks /\ run_computer_use_task("c1", "s1", via, "none")
    \/ run_resume("c1")
    \/ run_return("c1")
    \/ \E t \in DOMAIN tasks : task_start(t)
    \/ \E t \in DOMAIN tasks : task_end(t, "ok")
    \/ \E t \in DOMAIN tasks : task_finally(t)

SpecSweepLive ==
    /\ InitStore("cu")
    /\ [][NextSweepLive]_vars
    /\ WF_vars(sweep_resume)
    /\ WF_vars(TaskStep)

SpecSweep == InitStores /\ [][NextSweep]_vars

\* The three stores with a caller (c2) that removes a session twice.
NextRemove ==
    \/ \E sid \in SIDs : create_session(sid)
    \/ \E sid \in SIDs : usm_attach_sandbox(sid)
    \/ \E sid \in SIDs : remove_first("c2", sid)
    \/ remove_resume("c2")
    \/ remove_second("c2")
    \/ remove_return("c2")
    \/ NextStoreHandlers

SpecRemove == InitStores /\ [][NextRemove]_vars

\* UserSession objects whose holders fill them and clean them up directly,
\* beside the store's own removal and sweep.
NextUserSession ==
    \/ \E sid \in SIDs : create_session(sid)
    \/ \E sid \in SIDs : usm_attach_sandbox(sid)
    \/ \E sid \in SIDs : usm_assign(sid)
    \/ \E c \in Callers, u \in 1 .. MaxRecords : cleanup_resources(c, u)
    \/ \E c \in Callers : cleanup_return(c)
    \/ \E sid \in SIDs : remove_first("c2", sid)
    \/ remove_second("c2")
    \/ remove_return("c2")
    \/ Tick
    \/ cleanup_expired_sessions
    \/ periodic_sleep

SpecUserSession == InitStore("usm") /\ [][NextUserSession]_vars

\* The computer-use store with its sweep, its handlers and a caller (c2)
\* that shuts the store down.  (BrowserUseSession.cleanup awaits nothing, so
\* two removals of the browser-use store cannot overlap.)
NextShutdown ==
    \/ \E sid \in SIDs : create_session(sid)
    \/ Tick
    \/ cleanup_inactive_sessions
    \/ sweep_resume
    \/ periodic_sleep
    \/ shutdown("c2")
    \/ shutdown_resume("c2")
    \/ shutdown_return("c2")
    \/ NextStoreHandlers

SpecShutdown == InitStore("cu") /\ [][NextShutdown]_vars

\* The handlers and background tasks of one computer-use or browser-use
\* session, with two requests in flight at a time.
TaskSIDs == {"s1"}

NextTask ==
    \/ \E c \in Callers, sid \in TaskSIDs : FirstFree(c) /\ start_desktop_begin(c, sid)
    \/ \E c \in Callers : start_desktop_resume(c)
    \/ \E c \in Callers, sid \in TaskSIDs : FirstFree(c) /\ kill_desktop_begin(c, sid)
    \/ \E c \in Callers : kill_desktop_resume(c)
    \/ \E c \in Callers, sid \in TaskSIDs, via \in {"bg", "task"},
          attach \in {"none", "ok", "fail"} :
          FirstFree(c) /\ run_computer_use_task(c, sid, via, attach)
    \/ \E c \in Callers, sid \in TaskSIDs, via \in {"bg", "task"} :
          FirstFree(c) /\ run_task(c, sid, via)
    \/ \E c \in Callers : run_resume(c)
    \/ \E c \in Callers : run_return(c)
    \/ \E c \in Callers, sid \in TaskSIDs : FirstFree(c) /\ stop_computer_task(c, sid)
    \/ \E c \in Callers : stop_resume(c)
    \/ \E c \in Callers : stop_timeout(c)
    \/ \E c \in Callers : stop_return(c)
    \/ \E t \in DOMAIN tasks : task_start(t)
    \/ \E t \in DOMAIN tasks, outcome \in {"ok", "error"} : task_end(t, outcome)
    \/ \E t \in DOMAIN tasks : task_finally(t)

InitTask == \E kind \in {"cu", "bu"} : InitStore(kind)

SpecTask == InitTask /\ [][NextTask]_vars

\* A store together with the registry its sessions are notified through
\* (UserSessionManager with UserConnectionManager, the computer-use and
\* browser-use stores with app.ConnectionManager).  Connections attach under
\* the session ids of the store, messages are sent to them, and sessions are
\* removed by a caller or by the sweep.
NextTeardown ==
    \/ \E sid \in SIDs : create_session(sid)
    \/ Tick
    \/ \E ws \in WS, sid \in SIDs : Quiet /\ ws \notin accepted /\ ucm_connect(ws, sid)
    \/ \E ws \in WS, sid \in SIDs : Quiet /\ cm_connect(ws, sid)
    \/ \E p \in Senders, sid \in SIDs : Quiet /\ send_json_to_user(p, sid)
    \/ \E p \in Senders : ucm_send_resume(p)
    \/ \E p \in Senders, sid \in SIDs : Quiet /\ send_to_session(p, sid)
    \/ \E p \in Senders : cm_send_resume(p)
    \/ \E sid \in SIDs : remove_first("c2", sid)
    \/ remove_second("c2")
    \/ remove_return("c2")
    \/ cleanup_expired_sessions
    \/ cleanup_inactive_sessions
    \/ periodic_sleep

SpecTeardown == InitStores /\ [][NextTeardown]_vars

\* Lookups by id in the three stores, among creations and expiry sweeps.
NextLookup ==
    \/ \E sid \in SIDs : create_session(sid)
    \/ Tick
    \/ \E c \in Callers, sid \in SIDs : get_session_call(c, sid)
    \/ \E c \in Callers : get_return(c)
    \/ cleanup_expired_sessions
    \/ cleanup_inactive_sessions
    \/ periodic_sleep

SpecLookup == InitStores /\ [][NextLookup]_vars

\* The start requests of computer-use, browser-use and the Agentcore browser
\* tool, each of which may fail, with requests to kill the desktop in between.
NextStart ==
    \/ \E c \in Callers, sid \in SIDs : FirstFree(c) /\ start_desktop_begin(c, sid)
    \/ \E c \in Callers : start_desktop_resume(c)
    \/ \E c \in Callers : start_desktop_fails(c)
    \/ \E c \in Callers, sid \in SIDs : FirstFree(c) /\ start_agentcore_begin(c, sid)
    \/ \E c \in Callers : start_agentcore_resume(c)
    \/ \E c \in Callers : start_agentcore_fails(c)
    \/ \E c \in Callers : start_return(c)
    \/ \E c \in Callers, sid \in SIDs : FirstFree(c) /\ kill_desktop_begin(c, sid)
    \/ \E c \in Callers : kill_desktop_resume(c)
    \/ \E c \in Callers, sid \in SIDs :
          FirstFree(c) /\ run_computer_use_task(c, sid, "task", "none")
    \/ \E c \in Callers : run_resume(c)
    \/ \E c \in Callers : run_return(c)
    \/ Tick

InitStart == \E kind \in {"cu", "bu", "ac"} : InitStore(kind)

SpecStart == InitStart /\ [][NextStart]_vars

\* ====================================================================
\* Claims about the connection registries
\* ====================================================================

QueueIds(q) == [i \in 1..Len(q) |-> q[i].id]

ReceivedIds(rcv, ws) == [i \in 1..Len(rcv[ws]) |-> rcv[ws][i].msg.id]

\* C1. UserConnectionManager queue-then-flush: when a connection connects to
\* a session that has no attached connection and whose pending queue holds K
\* messages, it is sent exactly those K messages in the order they were sent,
\* and the queue of the session is empty afterwards (so that a second connect
\* is sent none of them).
C1_QueueThenFlush ==
    [][\A ws \in WS, s \in Sessions :
          ( /\ ucm_connect(ws, s)
            /\ Get(user_connections, s, << >>) = << >>
            /\ Get(user_message_queues, s, << >>) # << >> )
          => /\ ReceivedIds(received', ws) =
                   ReceivedIds(received, ws) \o QueueIds(user_message_queues[s])
             /\ Get(user_message_queues', s, << >>) = << >>]_vars

\* C2. app.ConnectionManager: the messages queued by send_to_session for a
\* session without connections are sent, in submission order, to the first
\* connection that attaches to the session (connect with a session id, or
\* associate_session), and the queue of the session is empty afterwards.
C2_FlushOnAttach ==
    [][\A ws \in WS, s \in Sessions :
          ( /\ cm_connect(ws, s) \/ associate_session(ws, s)
            /\ s \notin DOMAIN session_connections
            /\ Get(session_message_queues, s, << >>) # << >> )
          => /\ ReceivedIds(received', ws) =
                   ReceivedIds(received, ws) \o QueueIds(session_message_queues[s])
             /\ Get(session_message_queues', s, << >>) = << >>]_vars

\* C3. Isolation: with disjoint connection sets, every message a connection
\* is sent (by send_json_to_user, send_to_user, send_to_session or a flush) is
\* addressed to the session the connection is registered under, whatever the
\* interleaving of the sends.
C3_Isolation ==
    \A ws \in WS : \A i \in 1..Len(received[ws]) : received[ws][i].own

\* Two fan-out sends to different sessions are suspended at the same time and
\* each has reached a connection of its own session.
C3_Witness ==
    /\ sending["p1"].pc = "iter"
    /\ sending["p2"].pc = "iter"
    /\ sending["p1"].sid # sending["p2"].sid
    /\ \E w1, w2 \in WS :
          /\ w1 # w2
          /\ \E i \in 1..Len(received[w1]) : received[w1][i].msg = sending["p1"].msg
          /\ \E i \in 1..Len(received[w2]) : received[w2][i].msg = sending["p2"].msg

\* C6. Every connection object is a member of at most one session's
\* connection set (re-association removes it from the previous session).
C6_OneSessionPerConnection ==
    \A ws \in WS : Cardinality(RegsOf(ws)) <= 1

\* The connections attached to session s in the forward map of the registry
\* in use, and the connections that have an entry in its reverse map.
AttachedIn(uc, sc, s) ==
    IF UsesUCM THEN Range(Get(uc, s, << >>)) ELSE Get(sc, s, {})

ReverseIn(cs, ccs) ==
    IF UsesUCM THEN DOMAIN cs ELSE DOMAIN ccs

HasReceived(rcv, ws, m) == \E i \in 1..Len(rcv[ws]) : rcv[ws][i].msg = m

\* The step in which the fan-out send of coroutine p is over.
SendEnds(p) ==
    /\ sending[p].pc = "iter"
    /\ sending'[p].pc = "idle"

C12_SessionOrder ==
    \A ws \in WS : \A i, j \in 1..Len(received[ws]) :
        (i < j /\ received[ws][i].msg.to = received[ws][j].msg.to)
            => received[ws][i].msg.id < received[ws][j].msg.id

\* The step is a disconnect (call or pruning) that takes the last connection
\* of session s away.
LastLeaves(s) ==
    /\ UsesUCM
    /\ s \in DOMAIN user_connections
    /\ s \notin DOMAIN user_connections'

\* Connection w0 was attached to s, was sent a message of s, and is gone.
ServedBefore(w0, s) ==
    /\ w0 \in closed
    /\ w0 \notin DOMAIN connection_sessions
    /\ \E i \in 1..Len(received[w0]) : received[w0][i].msg.to = s

\* C13a.  When the last connection of s is disconnected, s leaves the forward
\* map and its pending queue is kept as it is.
C13_DisconnectKeepsQueue ==
    [][\A s \in Sessions :
          (LastLeaves(s) /\ ~(\E x \in Sessions : ucm_cleanup_session(x)))
              => user_message_queues' = user_message_queues]_vars

\* C13b.  A message sent to s while s has no connection is appended to the
\* queue of s.
C13_GapSendsQueued ==
    [][\A p \in Senders, s \in Sessions :
          ( /\ send_json_to_user(p, s) \/ send_to_user(p, s)
            /\ Get(user_connections, s, << >>) = << >> )
          => QueueIds(Get(user_message_queues', s, << >>)) =
                Append(QueueIds(Get(user_message_queues, s, << >>)), nsent + 1)]_vars

\* C13 (disconnect preserves the queue).  After the last connection of s has
\* been disconnected, the next connection that connects to s is sent exactly
\* the messages that were sent to s since then (the queue of s), in order, and
\* none of those the earlier connection was sent.
C13_ReconnectGetsGap ==
    [][\A ws \in WS, s \in Sessions :
          ( /\ ucm_connect(ws, s)
            /\ Get(user_connections, s, << >>) = << >>
            /\ \E w0 \in WS \ {ws} : ServedBefore(w0, s) )
          => ReceivedIds(received', ws) =
                ReceivedIds(received, ws) \o
                    QueueIds(Get(user_message_queues, s, << >>))]_vars

\* The pending queues of the registry in use.
QueuesIn(uq, sq) == IF UsesUCM THEN uq ELSE sq

\* The step is a send to session s, which has no connection.
QueuedSend(s) ==
    /\ \E p \in Senders : \/ send_json_to_user(p, s)
                           \/ send_to_user(p, s)
                           \/ send_to_session(p, s)
    /\ AttachedIn(user_connections, session_connections, s) = {}

\* C14 (bounded pending queue).  A send to a session without connections
\* leaves the queue of the session with at most QUEUE_CAP messages, the new
\* message last; a queue that was full has lost its oldest message and
\* nothing else, a queue that was not full has lost nothing; the order of the
\* retained messages is unchanged.
C14_BoundedQueue ==
    [][\A s \in Sessions :
          QueuedSend(s) =>
              LET old == QueueIds(Get(QueuesIn(user_message_queues,
                                               session_message_queues), s, << >>))
                  new == QueueIds(Get(QueuesIn(user_message_queues',
                                               session_message_queues'), s, << >>))
              IN /\ Len(new) <= QUEUE_CAP
                 /\ new[Len(new)] = nsent + 1
                 /\ new = IF Len(old) = QUEUE_CAP
                          THEN Append(Tail(old), nsent + 1)
                          ELSE Append(old, nsent + 1)]_vars

\* A full queue has taken a new message and evicted its oldest one.
C14_Witness ==
    \E s \in Sessions :
        LET q == Get(QueuesIn(user_message_queues, session_message_queues), s, << >>)
        IN /\ Len(q) = QUEUE_CAP
           /\ nsent >= 1
           /\ q[QUEUE_CAP].id = nsent
           /\ q[1].id > 1 - QUEUE_CAP

\* The registry holds no entry for ws: none in the reverse map and, in the
\* ConnectionManager, none in active_connections.
Unregistered(ws) ==
    IF UsesUCM THEN ws \notin DOMAIN connection_sessions
    ELSE ws \notin Range(active_connections) /\ ws \notin DOMAIN cm_connection_sessions

\* A step that is a call of disconnect(ws).
DisconnectCall(ws) ==
    \/ ucm_disconnect_call(ws)
    \/ cm_disconnect_call(ws)
    \/ cm_disconnect_unregistered(ws)

\* C23 (disconnect of an unregistered connection).  disconnect(ws) for a
\* connection the registry holds no entry for leaves the forward map, the
\* reverse map, the list of active connections and every pending queue as
\* they were, and nothing is sent.
C23_DisconnectNoOp ==
    [][\A ws \in WS :
          (Unregistered(ws) /\ DisconnectCall(ws)) =>
              UNCHANGED << user_connections, connection_sessions,
                           user_message_queues, active_connections,
                           session_connections, cm_connection_sessions,
                           session_message_queues, received >>]_vars

\* A connection has been connected twice and disconnected once: it has no
\* entry in the reverse map any more but is still in a list of the forward
\* map, next to a pending queue; the next disconnect of it is the no-op.
C23_Witness ==
    \E ws \in WS, s \in Sessions :
        /\ UsesUCM
        /\ ws \in accepted /\ ws \in closed
        /\ Unregistered(ws)
        /\ s \in DOMAIN user_connections /\ ws \in Range(user_connections[s])
        /\ \E q \in DOMAIN user_message_queues : user_message_queues[q] # << >>

\* ====================================================================
\* Claims about the session stores
\* ====================================================================
\* The sandboxes for which the kill() of a teardown raised.
FailedKills == {heap[u].torn : u \in {x \in DOMAIN heap : heap[x].kill_raised}}

\* Sandbox d has received the one kill() of its session's teardown.  Where
\* that kill() raised, ComputerUseSession / BrowserUseSession keep the handle,
\* and a kill request that already holds the object may call kill() again.
KilledOnce(d) == IF d \in FailedKills THEN kills[d] >= 1 ELSE kills[d] = 1

\* C7 (expiry sweep).  When a pass of the sweep (cleanup_expired_sessions /
\* cleanup_inactive_sessions) has finished, every session object that was
\* expired when the pass began is no longer in the store, its teardown
\* (cleanup / cleanup_resources) has been entered exactly once, the sandbox
\* it held at teardown has received exactly one kill() from that teardown,
\* and no sandbox whose kill() went through has received more than one.
C7_ExpirySweep ==
    sweep.pc = "fin" =>
        /\ ~sweep.raised
        /\ \A u \in sweep.exp :
              /\ u \notin Stored(sessions)
              /\ heap[u].cleanups = 1
              /\ heap[u].torn # 0 => KilledOnce(heap[u].torn)
        /\ \A d \in DOMAIN kills \ FailedKills : kills[d] <= 1

\* A pass of the computer-use sweep has finished that had to cancel and wait
\* for a running task, and removed a session holding a sandbox.
C7_Witness ==
    /\ impl = "cu"
    /\ sweep.pc = "fin"
    /\ \E u \in sweep.exp : heap[u].torn # 0 /\ kills[heap[u].torn] = 1
    /\ \E t \in DOMAIN tasks : tasks[t].how = "cancelled"

\* C8 (teardown idempotence).  A caller that removes an existing session id
\* (remove_session / cleanup_session), looks it up and removes it again gets
\* true from the first call; the lookup no longer returns the removed object;
\* the second call does not find that object again and returns false unless a
\* new session has been inserted under the id meanwhile (never in the
\* UserSessionManager); the object is torn down once and its sandbox has
\* received one kill(), not two.
C8_TeardownIdempotent ==
    \A c \in Callers :
        (calls[c].pc = "done" /\ calls[c].op = "remove") =>
            LET f == calls[c] IN
            /\ f.r1
            /\ f.g # f.u1
            /\ f.u2 # f.u1
            /\ f.u2 = 0 => ~f.r2
            /\ impl = "usm" => ~f.r2
            /\ heap[f.u1].cleanups = 1
            /\ heap[f.u1].torn # 0 => KilledOnce(heap[f.u1].torn)
            /\ \A d \in DOMAIN kills \ FailedKills : kills[d] <= 1

\* A session holding a sandbox has been removed twice: true, then false.
C8_Witness ==
    \E c \in Callers :
        /\ calls[c].pc = "done" /\ calls[c].op = "remove"
        /\ calls[c].r1 /\ ~calls[c].r2
        /\ heap[calls[c].u1].torn # 0
        /\ kills[heap[calls[c].u1].torn] = 1

\* The sessions of the running pass whose sandbox kill() raised.
KillRaisedIn(exp) == {u \in exp : heap[u].kill_raised}

\* C16 (sweep failure isolation).  When a pass of the sweep has finished in
\* which the kill() of some expired session's sandbox raised, no exception has
\* left the pass, the record of that session is deleted all the same, and
\* every other session that was expired when the pass began has been torn down
\* (its cleanup entered once, its sandbox sent one kill()) and deleted in the
\* same pass.
C16_SweepFailureIsolated ==
    (sweep.pc = "fin" /\ KillRaisedIn(sweep.exp) # {}) =>
        /\ ~sweep.raised
        /\ KillRaisedIn(sweep.exp) \cap Stored(sessions) = {}
        /\ \A u \in sweep.exp :
              /\ u \notin Stored(sessions)
              /\ heap[u].cleanups = 1
              /\ heap[u].torn # 0 => KilledOnce(heap[u].torn)

\* A pass has finished that removed two expired sessions: the first one's
\* kill() raised, the one after it was torn down and its sandbox killed.
C16_Witness ==
    /\ sweep.pc = "fin"
    /\ \E u, v \in sweep.exp :
          /\ u < v
          /\ heap[u].kill_raised
          /\ ~heap[v].kill_raised /\ heap[v].torn # 0
          /\ kills[heap[v].torn] = 1
          /\ {u, v} \cap Stored(sessions) = {}

\* ====================================================================
\* Claims about the task slot
\* ====================================================================
\* The step in which the run request of caller c passes lines 345-353 of
\* run_computer_use_task: the agent check and the "already running" check.
RunDecides(c) ==
    /\ impl = "cu"
    /\ calls'[c].pc \in {"done", "r_send"}
    /\ calls'[c].op = "run"
    /\ calls[c].pc \in {"idle", "r_started"}

\* The slot of the session the request works on holds a task that is not
\* done when the request arrives at its checks.
SlotLive(c) ==
    /\ calls'[c].rec \in DOMAIN heap
    /\ TaskLive(tasks, heap[calls'[c].rec].current_task)

\* The request is turned away with one of the given results, no task is
\* created and the slot still holds the same task.
Rejected(c, results) ==
    /\ calls'[c].pc = "done"
    /\ calls'[c].ret \in results
    /\ tasks' = tasks
    /\ heap'[calls'[c].rec].current_task = heap[calls'[c].rec].current_task

Running(sid) == {t \in DOMAIN tasks : tasks[t].sid = sid /\ tasks[t].st = "run"}

\* C5 (at most one task, interleaved).  Whatever the interleaving of start
\* requests (run_computer_use_task) on a session, at most one background task
\* of the session is running at any time.
C5_AtMostOneTask ==
    impl = "cu" => \A sid \in SIDs : Cardinality(Running(sid)) <= 1

\* The step in which the stop request of caller c returns: the closing send
\* is over and finally has reset stop_requested.  The request had found a
\* running task in the slot and has waited for it.
StopReturns(c) ==
    /\ impl = "cu"
    /\ calls[c].pc = "st_fin"
    /\ calls'[c].pc = "done"
    /\ calls[c].started
    /\ calls[c].ret = "success"

\* C9 (stop then restart).  When stop_computer_task on a session with a
\* running task returns, the task it found running has settled, current_task of
\* the session is null, stop_requested is false, and a start request arriving
\* now is not turned away as "already running".
C9_StopThenRestart ==
    [][\A c \in Callers :
          StopReturns(c) =>
              /\ tasks'[calls[c].t].st = "done"
              /\ heap'[calls[c].rec].current_task = 0
              /\ ~heap'[calls[c].rec].stop_requested
              /\ ~TaskLive(tasks', heap'[calls[c].rec].current_task)]_vars

\* The step in which background task t finishes.
TaskFinishes(t) ==
    /\ t \in DOMAIN tasks
    /\ tasks[t].st # "done"
    /\ tasks'[t].st = "done"

\* C10 (task end clears the handle).  When a background task finishes, by
\* whatever outcome, and the record of its session still exists, the slot of
\* the session is null and stop_requested is false: no finished task is left
\* in the slot.
C10_TaskEndClearsHandle ==
    [][\A t \in DOMAIN tasks :
          (TaskFinishes(t) /\ tasks[t].sid \in DOMAIN sessions') =>
              /\ heap'[sessions'[tasks[t].sid]].current_task = 0
              /\ ~heap'[sessions'[tasks[t].sid]].stop_requested]_vars

\* ====================================================================
\* Claims about stores and registries together
\* ====================================================================
\* The step deletes the record of session sid from the store: a
\* remove_session / cleanup_session call, explicit or made by the sweep, that
\* returns true.
Removed(sid) ==
    /\ sid \in DOMAIN sessions
    /\ sid \notin DOMAIN sessions'

\* C15 (full teardown on removal).  Once the record of session sid has been
\* removed from the store, the connection registry holds no connection set
\* and no pending-message queue for sid.
C15_RegistryCleared ==
    [][\A sid \in SIDs :
          Removed(sid) =>
              /\ sid \notin DOMAIN user_connections'
              /\ sid \notin DOMAIN session_connections'
              /\ sid \notin DOMAIN QueuesIn(user_message_queues',
                                            session_message_queues')]_vars

\* ====================================================================
\* Claims about failing start requests
\* ====================================================================
\* The step in which the start request of caller c returns its error.
StartFails(c) ==
    /\ calls[c].pc \in {"s_send", "a_close"} \/ FreeCaller(c)
    /\ calls'[c].pc = "s_done"

\* The "error" events among the events a handler sent.
ErrorsIn(events) == {i \in 1..Len(events) : events[i].type = "error"}

\* C17 (acquisition failure teardown).  When a start request fails after it
\* has created the sandbox, the sandbox has been sent a kill() and the session
\* is either gone from the store or no longer holds that sandbox.
C17_FailedStartTornDown ==
    [][\A c \in Callers :
          (StartFails(c) /\ calls'[c].made # 0) =>
              LET f == calls'[c] IN
              /\ kills'[f.made] >= 1
              /\ \/ f.rec \notin Stored(sessions')
                 \/ heap'[f.rec].desktop # f.made]_vars

\* C18 (acquisition failure reporting).  A start request that fails has sent
\* exactly one "error" event, addressed to the session id of the request, no
\* event to any other session id, and has created at most the one sandbox of
\* its single attempt.
C18_FailedStartReported ==
    [][\A c \in Callers :
          StartFails(c) =>
              LET f == calls'[c] IN
              /\ Cardinality(ErrorsIn(f.events)) = 1
              /\ \A i \in 1..Len(f.events) : f.events[i].to = f.sid
              /\ Len(kills') <= Len(kills) + 1]_vars

\* ====================================================================
\* Claims about failing background tasks
\* ====================================================================
\* The step in which task t, whose body raised, finishes.
TaskFailureEnds(t) == TaskFinishes(t) /\ tasks[t].how = "error"

\* C19 (task failure).  When a background task whose body raised finishes,
\* the exception has been caught (the task has sent exactly one "error" event,
\* addressed to its own session, and ends without a cancellation or another
\* outcome), no session object holds the task as its handle any more, the
\* record of the session is still in the store with the desktop and the agent
\* it had, and the slot check of a following run request finds no running
\* task.
C19_TaskFailureContained ==
    [][\A t \in DOMAIN tasks :
          TaskFailureEnds(t) =>
              LET sid == tasks[t].sid
                  u == sessions[sid]
              IN /\ tasks'[t].how = "error"
                 /\ tasks'[t].events = << Event("error", sid) >>
                 /\ \A x \in DOMAIN heap' : heap'[x].current_task # t
                 /\ sid \in DOMAIN sessions /\ sessions' = sessions
                 /\ heap'[u] = [heap[u] EXCEPT !.age = 0, !.current_task = 0,
                                               !.stop_requested = FALSE]
                 /\ ~TaskLive(tasks', heap'[u].current_task)]_vars

\* A task of a computer-use session, held in the slot from its creation, has
\* failed and finished; the session still holds the one desktop it ever had,
\* never killed, and a run request that found the slot empty afterwards has
\* been accepted.
C19_Witness ==
    \E t \in DOMAIN tasks, c \in Callers :
        /\ impl = "cu" /\ kills = << 0 >>
        /\ tasks[t].st = "done" /\ tasks[t].how = "error"
        /\ tasks[t].via = "task"
        /\ tasks[t].sid \in DOMAIN sessions
        /\ heap[sessions[tasks[t].sid]].desktop # 0
        /\ calls[c].pc = "done" /\ calls[c].op = "run"
        /\ calls[c].ret = "started"
        /\ calls[c].sid = tasks[t].sid
        /\ calls[c].n0 >= t
        /\ calls[c].t0 = 0

\* ====================================================================
\* Claims about lookups
\* ====================================================================
\* The step in which get_session, called by c, returns.
GetReturns(c) ==
    /\ FreeCaller(c)
    /\ calls'[c].pc = "done"
    /\ calls'[c].op = "get"

\* C20 (get_session).  A lookup of an id that has a record returns that
\* record and sets its last_activity to now, leaving every other record as it
\* was; a lookup of an id without a record returns None and changes nothing:
\* no record is created and none is touched.  The store's key set is the same
\* before and after either way.
C20_GetSession ==
    [][\A c \in Callers :
          GetReturns(c) =>
              LET sid == calls'[c].sid
                  ret == calls'[c].ret
              IN /\ sessions' = sessions
                 /\ Len(heap') = Len(heap)
                 /\ IF sid \in DOMAIN sessions
                    THEN /\ ret = sessions[sid]
                         /\ heap'[ret].age = 0
                         /\ \A u \in DOMAIN heap :
                               heap'[u] = IF u = ret
                                          THEN [heap[u] EXCEPT !.age = 0]
                                          ELSE heap[u]
                    ELSE /\ ret = 0
                         /\ heap' = heap]_vars

\* Two lookups have returned: one found a record that had been idle and
\* refreshed it next to an idle record it left alone, the other asked for the
\* id of a session that the sweep has removed and got None.
C20_Witness ==
    \E c, d \in Callers :
        /\ calls[c].pc = "done" /\ calls[c].op = "get"
        /\ calls[c].ret # 0 /\ heap[calls[c].ret].age = 0
        /\ \E u \in DOMAIN heap : u # calls[c].ret /\ heap[u].age > 0
        /\ calls[d].pc = "done" /\ calls[d].op = "get"
        /\ calls[d].ret = 0
        /\ calls[d].sid \in UsedSids \ DOMAIN sessions

\* ====================================================================
\* Claims about session ids
\* ====================================================================
\* The step in which a start action (start_computer_desktop, start_desktop,
\* run_computer_use_task, start_agentcore_browser) called by c with a session
\* id has got or created its session and has not failed before its first
\* await (a start_agentcore_browser that fails at once removes the record
\* again in the same step).
StartBegins(c) ==
    /\ FreeCaller(c)
    /\ ~FreeCaller(c)'
    /\ calls'[c].op \in {"start", "run"}
    /\ calls'[c].pc # "s_done"

\* C21 (get-or-create honours the client id).  When a start action is given
\* an id that has no record, one record is inserted under exactly that id, a
\* new object with that id and an empty task slot whose only resource is the
\* one this very request may have built, and the request goes on under the
\* supplied id with that object; when the id has a record, the request uses
\* that object and no record is added.  No other entry of the store changes.
C21_GetOrCreate ==
    [][\A c \in Callers :
          StartBegins(c) =>
              LET f == calls'[c]
                  new == Len(heap) + 1
              IN /\ f.sid \in DOMAIN sessions'
                 /\ f.rec = sessions'[f.sid]
                 /\ heap'[f.rec].sid = f.sid
                 /\ \A k \in DOMAIN sessions \ {f.sid} :
                       k \in DOMAIN sessions' /\ sessions'[k] = sessions[k]
                 /\ IF f.sid \in DOMAIN sessions
                    THEN /\ sessions' = sessions
                         /\ Len(heap') = Len(heap)
                    ELSE /\ DOMAIN sessions' = DOMAIN sessions \cup {f.sid}
                         /\ Len(heap') = new
                         /\ f.rec = new
                         /\ heap'[new].current_task = 0
                         /\ ~heap'[new].agent
                         /\ heap'[new].desktop \in {0} \cup
                               ((DOMAIN kills') \ (DOMAIN kills))]_vars

\* Two start requests have been admitted: one created the record of its id
\* next to an existing session, the other found the record of its id, which
\* holds a desktop, and uses it.
C21_Witness ==
    \E c, d \in Callers :
        /\ c # d
        /\ calls[c].pc \in {"s_send", "r_start", "a_start"}
        /\ calls[d].pc \in {"s_send", "r_send", "a_start"}
        /\ calls[c].sid # calls[d].sid
        /\ calls[c].rec = Len(heap) /\ Len(heap) = 2
        /\ heap[calls[c].rec].desktop = 0
        /\ calls[d].rec = 1
        /\ heap[1].desktop # 0
        /\ DOMAIN sessions = {calls[c].sid, calls[d].sid}

\* The step in which create_session returns: a record is added and no
\* request is involved.
CreateReturns ==
    /\ Len(heap') = Len(heap) + 1
    /\ calls' = calls

Stopping(c) == calls[c].pc \in {"st_send", "st_wait", "st_fin"}

\* C24 (cancellation timeout is best-effort).  A stop request that found a
\* task in the slot sets stop_requested and requests the cancellation of that
\* task before it waits; when the wait times out, the task it waits for has
\* its cancellation requested or is already leaving; and when the wait of a
\* timed-out stop is over, the request goes on to its closing send with the
\* success result and returns it.
C24_TimeoutStillSucceeds ==
    [][\A c \in Callers :
          LET f == calls[c]
              g == calls'[c]
          IN /\ (Stopping(c) /\ f.pc = "st_send" /\ g.pc = "st_wait") =>
                    /\ heap'[f.rec].stop_requested
                    /\ tasks'[g.task].cancel \/ tasks'[g.task].st = "done"
             /\ (Stopping(c) /\ f.pc = "st_wait" /\ ~f.timed_out /\ g.timed_out) =>
                    /\ g.pc = "st_wait"
                    /\ tasks'[f.task].cancel \/ tasks'[f.task].st = "closing"
             /\ (Stopping(c) /\ f.pc = "st_wait" /\ f.timed_out /\ g.pc # "st_wait") =>
                    /\ g.pc = "st_fin" /\ g.ret = "success"
                    /\ tasks[f.task].st = "done"
             /\ (Stopping(c) /\ f.pc = "st_fin" /\ f.timed_out /\ g # f) =>
                    /\ g.pc = "done" /\ g.ret = "success"]_vars

\* A stop request whose wait timed out has returned success; the task it
\* waited for was running and has ended by cancellation.
C24_Witness ==
    \E c \in Callers :
        /\ calls[c].pc = "done" /\ calls[c].op = "stop"
        /\ calls[c].timed_out /\ calls[c].started
        /\ calls[c].ret = "success"
        /\ tasks[calls[c].task].st = "done"
        /\ tasks[calls[c].task].how = "cancelled"

\* ------------------------- Claims about fan-out beside registry calls
\* The connections that were attached to the session of send f when it began
\* and still are, whose transport is open and whose send has not raised.  A
\* connection object that has left a registry is never attached again (connect
\* takes a fresh object), so these are the connections that stayed attached
\* to the session for the whole duration of the send.
StayedAttached(f) ==
    (f.snap \cap AttachedIn(user_connections, session_connections, f.sid))
        \ (closed \cup Range(f.failed))

C27_Step ==
    \A p \in Senders :
        SendEnds(p) =>
            /\ ~sending'[p].raised
            /\ \A ws \in StayedAttached(sending[p]) :
                  HasReceived(received', ws, sending[p].msg)

\* C27 (fan-out under concurrent registry mutation).  When a send to a
\* session is over, whatever connect, associate_session or disconnect calls
\* other tasks made while it was suspended: the send has not raised, and every
\* connection that stayed attached to the session from the beginning of the
\* send to its end has been sent the message.
C27_FanoutBesideMutation == [][C27_Step]_vars

\* ------------------------------------ Claims about the end of a session
\* The teardown of object u has begun: a kill request has killed its sandbox,
\* or its cleanup has been entered.
TornDown(u) == heap[u].torn # 0 \/ heap[u].cleanups > 0

C29_Step ==
    \A u \in DOMAIN heap :
        (TornDown(u) /\ u \in Stored(sessions')) =>
            /\ heap'[u].desktop = 0
            /\ ~TaskLive(tasks', heap'[u].current_task)

\* C29 (teardown is terminal).  A session whose teardown has begun, by an
\* explicit kill (kill_computer_desktop, kill_desktop) or by the expiry
\* sweep, is on its way out of the store and is never READY (holding a
\* sandbox) or BUSY (holding a running task) again: no step leaves such a
\* session in the store with a sandbox or a running task.
C29_TeardownTerminal == [][C29_Step]_vars

C30_Step ==
    \A u \in DOMAIN heap :
        LET d == heap[u].desktop
            t == heap[u].current_task
        IN (d # 0 /\ kills'[d] > kills[d] /\ TaskLive(tasks, t)) => tasks'[t].cancel

\* C30 (kill from BUSY cancels first).  Whenever kill() is invoked on the
\* sandbox of a session (by kill_computer_desktop, kill_desktop or a
\* cleanup) whose task slot holds a task that is still running, the
\* cancellation of that task (task.cancel / command.kill) has been requested
\* by then: no sandbox is killed under an uncancelled running task.
C30_CancelBeforeKill == [][C30_Step]_vars

\* ------------------------------- Claims about overlapping removals
\* C28 (concurrent removal).  With the sweep and shutdown free to call
\* cleanup_session for the same session id while the other is suspended in
\* it: neither the sweep nor shutdown raises; no sandbox whose kill() went
\* through receives a second kill(); and a finished pass of the sweep has
\* removed every session that was expired when it began.
C28_OverlapSafe ==
    /\ sweep.pc # "idle" => ~sweep.raised
    /\ \A c \in Callers :
          (calls[c].pc # "idle" /\ calls[c].op = "shutdown") => ~calls[c].raised
    /\ \A d \in DOMAIN kills \ FailedKills : kills[d] <= 1
    /\ sweep.pc = "fin" => sweep.exp \cap Stored(sessions) = {}

\* ------------------------------------------ Claims about UserSession
\* A call of cleanup_resources by caller c returns in this step.
CleanupReturns(c) ==
    /\ FreeCaller(c)
    /\ calls'[c].pc = "done"
    /\ calls'[c].op = "cleanup"

\* C25 (UserSession.cleanup_resources).  When a call of cleanup_resources
\* returns, the object's sandbox_instance, stream_url and current_command
\* are None and its connection and log lists are empty; the sandbox the
\* object held on entry has received exactly one kill() from the call, also
\* when that kill() raised, and no other sandbox any; no exception leaves the
\* call; a call on an object that holds no sandbox (a second cleanup) calls
\* no kill(), so that no sandbox ever receives two.
C25_CleanupResources ==
    [][\A c \in Callers : CleanupReturns(c) =>
          LET f == calls'[c]
              r == heap'[f.rec]
          IN /\ r.desktop = 0
             /\ ~r.stream_url
             /\ ~r.current_command
             /\ r.websocket_connections = 0
             /\ r.log_buffer = 0
             /\ ~f.raised
             /\ f.had = heap[f.rec].desktop
             /\ \A d \in DOMAIN kills :
                   kills'[d] = IF d = f.had THEN kills[d] + 1 ELSE kills[d]
             /\ f.had = 0 => kills' = kills
             /\ \A d \in DOMAIN kills' : kills'[d] <= 1]_vars

\* Two cleanups of one object have returned: the first found a sandbox whose
\* kill() raised and other resources, the second found nothing to kill.
C25_Witness ==
    /\ calls["c1"].pc = "done"
    /\ calls["c2"].pc = "done"
    /\ calls["c1"].op = "cleanup"
    /\ calls["c2"].op = "cleanup"
    /\ calls["c1"].rec = calls["c2"].rec
    /\ calls["c1"].had # 0
    /\ calls["c1"].failed
    /\ calls["c2"].had = 0
    /\ heap[calls["c1"].rec].cleanups = 2
    /\ kills[calls["c1"].had] = 1

\* ------------------------------------- Claims about the browser-use slot
\* A run_task / setup_env request of browser-use by caller c begins.
RunTaskBegins(c) ==
    /\ impl = "bu"
    /\ FreeCaller(c)
    /\ ~FreeCaller(c)'
    /\ calls'[c].op = "run"

\* Task t2 takes a step while the slot of its session holds another command
\* that is still running.
StepsBesideLive(t2) ==
    /\ impl = "bu"
    /\ tasks'[t2] # tasks[t2]
    /\ tasks[t2].sid \in DOMAIN sessions
    /\ heap[sessions[tasks[t2].sid]].current_task # t2
    /\ TaskLive(tasks, heap[sessions[tasks[t2].sid]].current_task)
    /\ ~tasks[heap[sessions[tasks[t2].sid]].current_task].cancel

C26_Step ==
    /\ \A c \in Callers :
          (RunTaskBegins(c) /\ TaskLive(tasks, heap[calls'[c].rec].current_task)) =>
             /\ calls'[c].pc = "done"
             /\ calls'[c].ret = "already_running"
             /\ heap'[calls'[c].rec].current_task = heap[calls'[c].rec].current_task
    /\ \A t2 \in DOMAIN tasks :
          StepsBesideLive(t2) =>
             heap'[sessions[tasks[t2].sid]].current_task =
                heap[sessions[tasks[t2].sid]].current_task

\* C26 (browser-use task slot).  A run_task / setup_env request on a
\* browser-use session whose current_command holds a command that is still
\* running is rejected with "already running", and neither the request nor
\* a task it started overwrites or clears the handle of the running command.
C26_BusySlotRejects == [][C26_Step]_vars


\* ------------------------------------------------- Claims about broadcast
\* The step in which the broadcast of coroutine p is over.
BroadcastEnds(p) ==
    /\ sending[p].pc = "bc"
    /\ sending'[p].pc = "idle"

HasReceivedId(rcv, ws, id) == \E i \in 1..Len(rcv[ws]) : rcv[ws][i].msg.id = id

C31_Step ==
    \A p \in Senders :
        BroadcastEnds(p) =>
            /\ ~sending'[p].raised
            /\ \A ws \in sending'[p].targets \ closed' :
                  HasReceivedId(received', ws, sending'[p].id)

\* C31 (broadcast).  When broadcast_to_all is over it has not raised, also
\* when a send to a recipient failed and that recipient was pruned (its
\* session entry removed with it), and every connection that was attached
\* when the call began and whose transport is open has been sent the message.
C31_BroadcastReachesAll == [][C31_Step]_vars


\* ------------------------------------------------- Claims about the sweep
C32_Step ==
    /\ cleanup_task' <= 1
    /\ cleanup_task' > cleanup_task => cleanup_task = 0

\* C32 (at most one sweep per store).  Whatever create_session calls are
\* made on a store, at most one periodic sweep task of the store is alive, and
\* a step starts a sweep task only when none is alive (none was started, or
\* the previous one has finished).
C32_AtMostOneSweep == [][C32_Step]_vars

\* Two sessions have been created, after the second create_session a single
\* sweep is alive.
C32_Witness ==
    /\ impl = "cu"
    /\ Cardinality(DOMAIN sessions) = 2
    /\ cleanup_task = 1


\* C33 (removal terminates with a task in flight).  A removal that is
\* suspended in the cleanup of a session, waiting for the session's running
\* task, always gets past the wait and deletes the record, whether the task
\* settles on the cancellation or the 3 second wait runs out first.
C33_RemovalTerminates ==
    \A u \in 1..MaxRecords :
        (sweep.pc = "wait" /\ sweep.rec = u)
            ~> (~(sweep.pc = "wait" /\ sweep.rec = u) /\ u \notin Stored(sessions))

\* A sweep whose wait for a task ran out has finished, and nothing it found
\* expired is left in the store.
C33_Witness ==
    /\ sweep.pc = "fin"
    /\ sweep.timed_out
    /\ sweep.exp \cap Stored(sessions) = {}


\* ------------------------------------------------ Claims about sandboxes
\* C34 (no orphaned sandbox).  At every point each sandbox that a start or
\* run request has created is the desktop of a record the store still holds,
\* or kill() has been called on it; a start on a session that holds a desktop
\* does not drop the old sandbox without tearing it down.
C34_NoOrphanedSandbox ==
    \A d \in DOMAIN kills :
        \/ kills[d] > 0
        \/ \E u \in Stored(sessions) : heap[u].desktop = d


\* ---------------------------------------------- Claims about lost messages
\* Message m waits in the pending queue of session s (of either registry).
IsPending(umq, smq, s, m) ==
    LET q == IF UsesUCM THEN Get(umq, s, << >>) ELSE Get(smq, s, << >>)
    IN \E i \in 1..Len(q) : q[i].id = m.id

C35_Step ==
    \A p \in Senders :
        (SendEnds(p) /\ ~sending'[p].raised) =>
            \/ \E ws \in WS : HasReceived(received', ws, sending[p].msg)
            \/ IsPending(user_message_queues', session_message_queues',
                         sending[p].sid, sending[p].msg)

\* C35 (no silent message loss on send).  When send_json_to_user, send_to_user
\* or send_to_session returns for a message addressed to session s, a
\* connection has been sent the message or the message is in the pending queue
\* of s; a message whose send failed on every connection is not dropped.
C35_NoSilentLoss == [][C35_Step]_vars


\* C36 (every record is eventually swept).  Whenever a computer-use,
\* browser-use or agentcore store holds a record, also one that a start
\* request or identify_session inserted under a client-supplied id without
\* create_session, a periodic sweep task of the store is alive (so that the
\* record is removed once it has been inactive for longer than the timeout).
C36_SweepRunsWhileRecords ==
    (impl \in {"cu", "bu", "ac"} /\ DOMAIN sessions # {}) => cleanup_task > 0


C37_Step ==
    \A u \in DOMAIN heap :
        heap'[u].cleanups > heap[u].cleanups => is_expired(heap[u])

\* C37 (the sweep removes only expired sessions).  The sweep enters the
\* teardown of a record only if the record's inactivity exceeds the timeout at
\* that moment: a record that get_session refreshed while the sweep was
\* suspended in the teardown of another session is not torn down by that pass.
C37_SweepOnlyExpired == [][C37_Step]_vars


\* ------------------------------------- Claims about the maps of the registry
\* C38 (registry map consistency).  Whenever no call of UserConnectionManager
\* is in progress: a connection is in the list of session s exactly when the
\* reverse map sends it to s, no list holds a connection twice, and no session
\* id maps to an empty list; also after the same connection object has been
\* connected twice.
C38_MapsConsistent ==
    (impl = "ucm" /\ Quiet) =>
        /\ \A s \in DOMAIN user_connections :
              /\ user_connections[s] # << >>
              /\ Cardinality(Range(user_connections[s])) = Len(user_connections[s])
        /\ \A ws \in WS, s \in Sessions :
              ws \in Range(Get(user_connections, s, << >>))
                  <=> Get(connection_sessions, ws, NoSession) = s


\* Dict d has the same entry (or the same absence of one) for key k as e.
SameEntry(d, e, k) ==
    /\ (k \in DOMAIN d) = (k \in DOMAIN e)
    /\ k \in DOMAIN d => d[k] = e[k]

C39_Step ==
    \A s \in Sessions :
        ucm_cleanup_session(s) =>
            /\ s \notin DOMAIN user_connections'
            /\ s \notin DOMAIN user_message_queues'
            /\ \A ws \in DOMAIN connection_sessions' : connection_sessions'[ws] # s
            /\ \A x \in Sessions \ {s} :
                  /\ SameEntry(user_connections', user_connections, x)
                  /\ SameEntry(user_message_queues', user_message_queues, x)
            /\ \A ws \in DOMAIN connection_sessions :
                  connection_sessions[ws] # s
                      => SameEntry(connection_sessions', connection_sessions, ws)
            /\ ( /\ s \notin DOMAIN user_connections
                 /\ s \notin DOMAIN user_message_queues )
               => /\ user_connections' = user_connections
                  /\ user_message_queues' = user_message_queues
                  /\ connection_sessions' = connection_sessions

\* C39 (frame of cleanup_session).  After UserConnectionManager's
\* cleanup_session(s), s has no entry in user_connections nor in the message
\* queues and no connection is mapped to s; the lists, queues and reverse
\* entries of every other session are as before; for an unknown s nothing
\* changes.
C39_CleanupSessionFrame == [][C39_Step]_vars

====
